---- MODULE Spec2Model ----
(***************************************************************************)
(* The remote file-transfer backends of termscp: ScpFileTransfer            *)
(* (src/filetransfer/scp_transfer.rs) and SftpFileTransfer                  *)
(* (src/filetransfer/sftp_transfer.rs) behind the FileTransfer trait.       *)
(*                                                                         *)
(* One backend instance is modelled; its protocol is fixed at construction. *)
(* Every action is one complete call of a trait method.  The remote peer,  *)
(* the name resolver and the local filesystem are the environment: their   *)
(* answers are drawn with \E at the point where the code asks for them.    *)
(*                                                                         *)
(* Option<T> is a sequence of length at most one; a string that the code   *)
(* inspects (shell output, paths) is a sequence of one-character strings.  *)
(*                                                                         *)
(* The terminal interface is modelled where it stands on its own: the      *)
(* ActivityManager (src/activity_manager.rs) and the RadioGroup and LogBox *)
(* components (src/ui/layout/components).                                  *)
(***************************************************************************)
EXTENDS Integers, Sequences, FiniteSets, TLC

\* ------------------------------------------------------------------ bounds
\* Number of distinct socket addresses a name may resolve to.
MaxAddrs == 2
\* Length of the longest captured shell output.
MaxOut == 2
\* The server calls that are refused during one remove: at most MaxFail.
MaxFail == 2
\* Number of lines of a listing, and of pairs of a directory read.
MaxLines == 2
\* Length in bytes of a local file.
MaxSize == 2

\* ------------------------------------------------------------- value model
None == <<>>
Some(x) == <<x>>
IsSome(o) == o # <<>>
Unwrap(o) == o[1]

Hosts == {"h1"}
\* Optional user names and passwords handed to connect.
Usernames == {None, Some("u")}
Passwords == {None, Some("p")}
\* Characters a captured shell output is made of.
Chars == {"0", "/", "\n"}
\* Canonical paths the SFTP server may answer realpath with.
CanonPaths == {<<"/">>, <<"/", "p">>}
\* Paths handed to change_dir / stat / list_dir / mkdir.
Dirs == {<<"/">>, <<"p">>, <<"/", "p">>}

SeqsUpTo(S, n) == UNION {[1..k -> S] : k \in 0..n}
Outputs == SeqsUpTo(Chars, MaxOut)
SeqRange(s) == {s[i] : i \in 1..Len(s)}
\* A resolution yields a list of distinct socket addresses, or fails.  The
\* addresses are named by their place in the list.
AddrLists == {[i \in 1..k |-> i] : k \in 0..MaxAddrs}
Resolutions == {[ok |-> FALSE, addrs |-> <<>>]} \cup {[ok |-> TRUE, addrs |-> s] : s \in AddrLists}

\* str::trim
IsWhitespace(c) == c \in {" ", "\n", "\t", "\r"}
RECURSIVE TrimStart(_)
TrimStart(s) == IF s # <<>> /\ IsWhitespace(Head(s)) THEN TrimStart(Tail(s)) ELSE s
RECURSIVE TrimEnd(_)
TrimEnd(s) == IF s # <<>> /\ IsWhitespace(s[Len(s)]) THEN TrimEnd(SubSeq(s, 1, Len(s) - 1)) ELSE s
Trim(s) == TrimEnd(TrimStart(s))

\* Result<T, FileTransferError>
Ok(v) == [kind |-> "Ok", msg |-> "", val |-> v]
Err(k) == [kind |-> k, msg |-> "", val |-> <<>>]
ErrEx(k, m) == [kind |-> k, msg |-> m, val |-> <<>>]
\* The text of an error of the underlying transport, format!("{}", err).
Detail == "detail"

\* ------------------------------------------------------------------- state
VARIABLES
    protocol,       \* which FileTransfer implementation the instance is
    key_storage,    \* SshKeyStorage: the (host, username) pairs that have a key
    session,        \* Option<Session>
    sftp,           \* Option<Sftp> (SftpFileTransfer only)
    wrkdir,         \* PathBuf
    last,           \* the most recent call: operation, result, what it did
    connectCalled,  \* history: connect has been called on this instance
    cleared,        \* history: a disconnect succeeded and no connect succeeded since
    lastSet,        \* history: the path of the latest successful connect / change_dir
    manager,        \* Option<ActivityManager>: its context and where run stands
    radio,          \* Option<RadioGroup>: its props and states, its latest Msg
    logbox          \* Option<LogBox>: its props and states, its latest Msg

vars == <<protocol, key_storage, session, sftp, wrkdir, last, connectCalled, cleared, lastSet,
          manager, radio, logbox>>

\* The (host, username) pairs a key may be stored for.
KeyPairs == {<<"h1", "u">>}
NewSession(peer) == [peer |-> peer, blocking |-> TRUE]
NewSftp(sess) == [channel_of |-> sess.peer]
\* session.banner(): the greeting of the server at that address, if it has one.
BannerOf(peer) == IF peer = 1 THEN Some("banner") ELSE None

\* What one connect call did: its arguments, what the environment answered,
\* and the events of the call in the order they happened
\*   [ev |-> "tcp", addr, ok]             TcpStream::connect_timeout
\*   [ev |-> "resolve", host, user, key]  SshKeyStorage::resolve
\*   [ev |-> "auth", method, user, secret] userauth_pubkey_file / userauth_password
\* and the working directory the server gave.  Other calls keep the argument
\* their result depends on in args.
NoTrace ==
    [args |-> None, resolved |-> None, reach |-> {}, events |-> <<>>, cwd |-> None,
     removed |-> {}]

\* ScpFileTransfer::new / SftpFileTransfer::new
FileTransferNew ==
    /\ protocol \in {"scp", "sftp"}
    /\ key_storage \in SUBSET KeyPairs
    /\ session = None
    /\ sftp = None
    /\ wrkdir = <<"~">>
    /\ last = [op |-> "new", res |-> "Ok", msg |-> "", val |-> <<>>, trace |-> NoTrace]
    /\ connectCalled = FALSE
    /\ cleared = FALSE
    /\ lastSet = None

\* No part of the terminal interface has been constructed.
NoManager == manager = None
NoRadio == radio = None
NoLogBox == logbox = None

\* A backend on its own.
Init == FileTransferNew /\ NoManager /\ NoRadio /\ NoLogBox

is_connected == IsSome(session)

\* The end of a call: the fields as the call leaves them, its result r and
\* its trace.  A call that never returns (a panic, an unbounded recursion)
\* has the result "Abort"; nothing is called after it.
Return(op, r, tr, s2, f2, w2) ==
    /\ last.res # "Abort"
    /\ session' = s2
    /\ sftp' = f2
    /\ wrkdir' = w2
    /\ last' = [op |-> op, res |-> r.kind, msg |-> r.msg, val |-> r.val, trace |-> tr]
    /\ connectCalled' = (connectCalled \/ op = "connect")
    /\ cleared' = IF r.kind = "Ok" /\ op = "disconnect" THEN TRUE
                  ELSE IF r.kind = "Ok" /\ op = "connect" THEN FALSE
                  ELSE cleared
    /\ lastSet' = IF r.kind = "Ok" /\ op = "connect" THEN tr.cwd
                  ELSE IF r.kind = "Ok" /\ op = "change_dir" THEN Some(r.val)
                  ELSE lastSet
    /\ UNCHANGED <<protocol, key_storage, manager, radio, logbox>>

\* A call that leaves every field alone.
ReturnSame(op, r) == Return(op, r, NoTrace, session, sftp, wrkdir)

\* ---------------------------------------------------------------- connect
\* The address loop without its break: every address is tried.
RECURSIVE TryEveryAddress(_, _, _)
TryEveryAddress(addrs, reach, tried) ==
    IF addrs = <<>>
    THEN [tcp |-> IF \E i \in 1..Len(tried) : tried[i].ok
                  THEN Some(tried[CHOOSE i \in 1..Len(tried) : tried[i].ok].addr)
                  ELSE None,
          events |-> tried]
    ELSE TryEveryAddress(Tail(addrs), reach,
                         Append(tried, [ev |-> "tcp", addr |-> Head(addrs),
                                        ok |-> Head(addrs) \in reach]))

\* for socket_addr in socket_addresses.iter(): connect_timeout, break on Ok.
\* reach: the addresses that accept a TCP connection during this call.
RECURSIVE TryAddresses(_, _, _)
TryAddresses(addrs, reach, tried) ==
    IF addrs = <<>> THEN [tcp |-> None, events |-> tried]
    ELSE IF Head(addrs) \in reach
         THEN [tcp |-> Some(Head(addrs)),
               events |-> Append(tried, [ev |-> "tcp", addr |-> Head(addrs), ok |-> TRUE])]
         ELSE TryAddresses(Tail(addrs), reach,
                           Append(tried, [ev |-> "tcp", addr |-> Head(addrs), ok |-> FALSE]))

\* SshKeyStorage::resolve(host, username)
resolve(host, username) ==
    IF <<host, username>> \in key_storage THEN Some([key_for |-> <<host, username>>]) ELSE None

\* username: Some(u) => u, None => ""
UserOrEmpty(username) == IF IsSome(username) THEN Unwrap(username) ELSE ""

\* An authentication that falls back to the password when the key is
\* refused.
AuthenticateWithFallback(address, username, password, authOk) ==
    LET user == UserOrEmpty(username)
        rsa_key == resolve(address, user)
        consult == [ev |-> "resolve", host |-> address, user |-> user, key |-> rsa_key]
        pk == [ev |-> "auth", method |-> "pubkey", user |-> user, secret |-> password]
        pw == [ev |-> "auth", method |-> "password", user |-> user,
               secret |-> Some(IF IsSome(password) THEN Unwrap(password) ELSE "")]
    IN [events |-> IF IsSome(rsa_key)
                   THEN IF authOk THEN <<consult, pk>> ELSE <<consult, pk, pw>>
                   ELSE <<consult, pw>>,
        result |-> IF authOk THEN Ok(<<>>) ELSE ErrEx("AuthenticationFailed", Detail)]

\* An authentication that consults the key storage a second time, after the
\* authentication.
AuthenticateConsultingTwice(address, username, password, authOk) ==
    LET user == UserOrEmpty(username)
        rsa_key == resolve(address, user)
        consult == [ev |-> "resolve", host |-> address, user |-> user, key |-> rsa_key]
        auth == IF IsSome(rsa_key)
                THEN [ev |-> "auth", method |-> "pubkey", user |-> user,
                      secret |-> password]
                ELSE [ev |-> "auth", method |-> "password", user |-> user,
                      secret |-> Some(IF IsSome(password) THEN Unwrap(password) ELSE "")]
    IN [events |-> <<consult, auth, consult>>,
        result |-> IF authOk THEN Ok(<<>>) ELSE ErrEx("AuthenticationFailed", Detail)]

\* The authentication step of connect: consult the key storage, then
\* userauth_pubkey_file with the key found (the password is the key's
\* passphrase, password.as_deref()), or userauth_password without one.
\* authOk: whether the server accepts the one authentication it is offered.
Authenticate(address, username, password, authOk) ==
    LET user == UserOrEmpty(username)
        rsa_key == resolve(address, user)
        consult == [ev |-> "resolve", host |-> address, user |-> user, key |-> rsa_key]
        auth == IF IsSome(rsa_key)
                THEN [ev |-> "auth", method |-> "pubkey", user |-> user,
                      secret |-> password]
                ELSE [ev |-> "auth", method |-> "password", user |-> user,
                      secret |-> Some(IF IsSome(password) THEN Unwrap(password) ELSE "")]
    IN [events |-> <<consult, auth>>,
        result |-> IF authOk THEN Ok(<<>>) ELSE ErrEx("AuthenticationFailed", Detail)]

\* What a command channel can do: fail to open, fail to run the command,
\* fail while its output is read, or deliver the output.
ShellOutcomes ==
    {[step |-> s, out |-> <<>>] : s \in {"channel", "exec", "read"}}
        \cup {[step |-> "done", out |-> o] : o \in Outputs}

\* perform_shell_cmd on session sess
perform_shell_cmd(sess, sh) ==
    IF ~IsSome(sess) THEN Err("UninitializedSession")
    ELSE IF sh.step = "done" THEN Ok(sh.out)
    ELSE ErrEx("ProtocolError", Detail)

\* ScpFileTransfer::connect after authentication, first half: the pwd command
\* on the new session and the trimmed path it yields.
ScpConnectPwd(new, sh) ==
    LET out == perform_shell_cmd(Some(new), sh) IN
    IF out.kind = "Ok" THEN Ok(Trim(out.val)) ELSE out

\* ScpFileTransfer::connect after authentication: the session is stored, then
\* the working directory is set from the answer to pwd.
ScpConnectSetup(new, pwd, tr) ==
    IF pwd.kind = "Ok"
    THEN Return("connect", Ok(BannerOf(new.peer)), [tr EXCEPT !.cwd = Some(pwd.val)],
                Some(new), sftp, pwd.val)
    ELSE Return("connect", pwd, tr, Some(new), sftp, wrkdir)

\* SftpFileTransfer::connect after authentication: set_blocking(true), open
\* the sftp channel, realpath("."), and only then store session and sftp.
\* sftpOk: the channel opens; real: the answer to realpath.
SftpConnectSetup(new, sftpOk, real, tr) ==
    LET s1 == [new EXCEPT !.blocking = TRUE] IN
    IF ~sftpOk THEN Return("connect", ErrEx("ProtocolError", Detail), tr, session, sftp, wrkdir)
    ELSE IF ~IsSome(real)
    THEN Return("connect", ErrEx("ProtocolError", Detail), tr, session, sftp, wrkdir)
    ELSE Return("connect", Ok(BannerOf(s1.peer)), [tr EXCEPT !.cwd = real],
                Some(s1), Some(NewSftp(s1)), Unwrap(real))

\* What follows a successful authentication on the session new, in the
\* implementation of the backend's protocol.
ConnectSetup(new, tr) ==
    IF protocol = "scp"
    THEN \E pwd \in {ScpConnectPwd(new, sh) : sh \in ShellOutcomes} :
            ScpConnectSetup(new, pwd, tr)
    ELSE \E sftpOk \in BOOLEAN, real \in {None} \cup {Some(p) : p \in CanonPaths} :
            SftpConnectSetup(new, sftpOk, real, tr)

\* connect up to and including authentication, where the two
\* implementations have the same text, and then ConnectSetup.
Connect ==
    \E address \in Hosts, username \in Usernames, password \in Passwords,
       res \in Resolutions :
        LET t0 == [NoTrace EXCEPT
                      !.args = Some([address |-> address, username |-> username,
                                     password |-> password]),
                      !.resolved = Some(res)]
        IN
        IF ~res.ok
        THEN Return("connect", ErrEx("BadAddress", Detail), t0, session, sftp, wrkdir)
        ELSE \E reach \in SUBSET SeqRange(res.addrs) :
            LET tried == TryAddresses(res.addrs, reach, <<>>)
                t1 == [t0 EXCEPT !.reach = reach, !.events = tried.events]
            IN
            IF ~IsSome(tried.tcp)
            THEN Return("connect", ErrEx("ConnectionError", "Connection timeout"), t1,
                        session, sftp, wrkdir)
            ELSE \E sessionNew \in BOOLEAN :
                IF ~sessionNew
                THEN Return("connect", ErrEx("ConnectionError", Detail), t1,
                            session, sftp, wrkdir)
                ELSE \E handshake \in BOOLEAN :
                    IF ~handshake
                    THEN Return("connect", ErrEx("ConnectionError", Detail), t1,
                                session, sftp, wrkdir)
                    ELSE \E authOk \in BOOLEAN :
                        LET a == Authenticate(address, username, password, authOk)
                            t2 == [t1 EXCEPT !.events = t1.events \o a.events]
                        IN
                        IF a.result.kind # "Ok"
                        THEN Return("connect", a.result, t2, session, sftp, wrkdir)
                        ELSE ConnectSetup(NewSession(Unwrap(tried.tcp)), t2)

ScpConnect ==
    /\ protocol = "scp"
    /\ Connect

SftpConnect ==
    /\ protocol = "sftp"
    /\ Connect

\* ------------------------------------------------------- ScpFileTransfer
\* Path::is_absolute, PathBuf::push and Path::parent on unix paths.
is_absolute(p) == p # <<>> /\ Head(p) = "/"
push(base, p) ==
    IF is_absolute(p) THEN p
    ELSE IF base = <<>> \/ base[Len(base)] = "/" THEN base \o p
    ELSE base \o <<"/">> \o p
has_parent(p) == p # <<>> /\ \E i \in 1..Len(p) : p[i] # "/"

\* perform_shell_cmd_with_path: cd "<path>"; <cmd> on the stored session.
perform_shell_cmd_with_path(sh) == perform_shell_cmd(session, sh)

\* format!("cd \"{}\"; {}", path.display(), cmd): the command line handed to
\* perform_shell_cmd, as the directory it enters and the command that follows.
ShellCommand(path, cmd) == [cd |-> path, then |-> cmd]

\* Commands handed to exec.
Commands == {"echo 5", "ls"}

\* session.disconnect(None, "Mandi!", None); ok: the transport accepts it.
\* The trace of a disconnect that reached the transport, which answered ok.
DisconnectTrace(ok) == [NoTrace EXCEPT !.args = Some([ok |-> ok])]

\* disconnect that drops the session whatever the transport answers
ScpDisconnectDroppingSession ==
    /\ protocol = "scp"
    /\ IF IsSome(session)
       THEN \E ok \in BOOLEAN :
              Return("disconnect",
                     IF ok THEN Ok(<<>>) ELSE ErrEx("ConnectionError", Detail),
                     DisconnectTrace(ok), None, sftp, wrkdir)
       ELSE ReturnSame("disconnect", Err("UninitializedSession"))

ScpDisconnect ==
    /\ protocol = "scp"
    /\ IF IsSome(session)
       THEN \E ok \in BOOLEAN :
              IF ok THEN Return("disconnect", Ok(<<>>), DisconnectTrace(ok),
                                None, sftp, wrkdir)
              ELSE Return("disconnect", ErrEx("ConnectionError", Detail),
                          DisconnectTrace(ok), session, sftp, wrkdir)
       ELSE ReturnSame("disconnect", Err("UninitializedSession"))

ScpIsConnected ==
    /\ protocol = "scp"
    /\ ReturnSame("is_connected", Ok(<<is_connected>>))

\* pwd without the test of the session
ScpPwdUnchecked == Ok(wrkdir)

ScpPwdResult ==
    IF is_connected THEN Ok(wrkdir) ELSE Err("UninitializedSession")

ScpPwd ==
    /\ protocol = "scp"
    /\ ReturnSame("pwd", ScpPwdResult)

\* change_dir that takes the working directory from the output before it
\* looks at the exit status
ScpChangeDirSettingFirst(sh) ==
    IF is_connected
    THEN LET r == perform_shell_cmd_with_path(sh) IN
         IF r.kind = "Ok"
         THEN LET output == Trim(r.val)
                  dir == IF output = <<>> THEN <<>> ELSE Trim(Tail(output))
              IN IF output # <<>> /\ Head(output) = "0"
                 THEN [result |-> Ok(dir), wrkdir |-> dir]
                 ELSE [result |-> ErrEx("NoSuchFileOrDirectory", Detail), wrkdir |-> dir]
         ELSE [result |-> ErrEx("ProtocolError", Detail), wrkdir |-> wrkdir]
    ELSE [result |-> Err("UninitializedSession"), wrkdir |-> wrkdir]

\* change_dir: cd "<dir>"; echo $?; pwd.  The result and the working
\* directory the call leaves.
ScpChangeDirResult(sh) ==
    IF is_connected
    THEN LET r == perform_shell_cmd_with_path(sh) IN
         IF r.kind = "Ok"
         THEN LET output == Trim(r.val) IN
              IF output # <<>> /\ Head(output) = "0"
              THEN [result |-> Ok(Trim(Tail(output))), wrkdir |-> Trim(Tail(output))]
              ELSE [result |-> ErrEx("NoSuchFileOrDirectory", Detail), wrkdir |-> wrkdir]
         ELSE [result |-> ErrEx("ProtocolError", Detail), wrkdir |-> wrkdir]
    ELSE [result |-> Err("UninitializedSession"), wrkdir |-> wrkdir]

\* The target of the cd as the argument gives it
ChangeDirTargetAsGiven(dir) == dir

\* remote_path: the argument when it is absolute, else "." with the
\* argument pushed onto it.
ChangeDirTarget(dir) == IF is_absolute(dir) THEN dir ELSE push(<<".">>, dir)

\* format!("cd \"{}\"; echo $?; pwd", remote_path.display())
ChangeDirCommand(dir) == <<"cd", ChangeDirTarget(dir), "echo $?", "pwd">>

\* dir: the argument; sh: what the command channel does; shell_cmd: the
\* command line handed to perform_shell_cmd.
ScpChangeDir ==
    /\ protocol = "scp"
    /\ \E dir \in Dirs, sh \in ShellOutcomes :
          LET c == ScpChangeDirResult(sh) IN
          Return("change_dir", c.result,
                 [NoTrace EXCEPT !.args = Some([dir |-> dir, sh |-> sh,
                     shell_cmd |-> IF is_connected
                                   THEN Some(ShellCommand(wrkdir, ChangeDirCommand(dir)))
                                   ELSE None])],
                 session, sftp, c.wrkdir)

\* The exit-status test as change_dir makes it: the trimmed output starts
\* with "0".
ScpExitStatusByPrefix(sh, denied) ==
    IF is_connected
    THEN LET r == perform_shell_cmd_with_path(sh) IN
         IF r.kind = "Ok"
         THEN IF Trim(r.val) # <<>> /\ Head(Trim(r.val)) = "0" THEN Ok(<<>>)
              ELSE ErrEx(denied, Detail)
         ELSE ErrEx("ProtocolError", Detail)
    ELSE Err("UninitializedSession")

\* mkdir, rm -rf, mv -f, cp -rf followed by echo $?: success iff the trimmed
\* output is "0", otherwise the error kind of the operation.
ScpExitStatusResult(sh, denied) ==
    IF is_connected
    THEN LET r == perform_shell_cmd_with_path(sh) IN
         IF r.kind = "Ok"
         THEN IF Trim(r.val) = <<"0">> THEN Ok(<<>>) ELSE ErrEx(denied, Detail)
         ELSE ErrEx("ProtocolError", Detail)
    ELSE Err("UninitializedSession")

ScpCopy ==
    /\ protocol = "scp"
    /\ \E sh \in ShellOutcomes :
          Return("copy", ScpExitStatusResult(sh, "FileCreateDenied"),
                 [NoTrace EXCEPT !.args = Some([sh |-> sh])], session, sftp, wrkdir)

ScpMkdir ==
    /\ protocol = "scp"
    /\ \E sh \in ShellOutcomes :
          Return("mkdir", ScpExitStatusResult(sh, "FileCreateDenied"),
                 [NoTrace EXCEPT !.args = Some([sh |-> sh])], session, sftp, wrkdir)

ScpRemove ==
    /\ protocol = "scp"
    /\ \E sh \in ShellOutcomes :
          Return("remove", ScpExitStatusResult(sh, "PexError"),
                 [NoTrace EXCEPT !.args = Some([sh |-> sh])], session, sftp, wrkdir)

ScpRename ==
    /\ protocol = "scp"
    /\ \E sh \in ShellOutcomes :
          Return("rename", ScpExitStatusResult(sh, "PexError"),
                 [NoTrace EXCEPT !.args = Some([sh |-> sh])], session, sftp, wrkdir)

\* ---- list_dir and parse_ls_output
\* A line of ls output, as the text the pattern LS_RE sees:
\*   flag   the first character;
\*   pex    the nine characters after it;
\*   rest   whether link count, owner, group, size and date match their part
\*          of the pattern;
\*   token  the characters of the file name token (.+);
\* with what lies behind the name when the line is a link with a target:
\*   local_is_dir  Path::is_dir() of the target, which asks the local
\*                 filesystem;
\*   stat   what the server makes of the stat of the target: it describes an
\*          entry, it describes nothing that parses, it describes a link
\*          whose own target is then an entry ("link"), or its answers are
\*          links that lead back ("cycle");
\* and child, whether the line stands for a direct child of the directory
\* listed (the header and the "." and ".." lines do not).
LsLine(child, flag, pex, rest, token, local_is_dir, stat) ==
    [child |-> child, flag |-> flag, pex |-> pex, rest |-> rest, token |-> token,
     target |-> [local_is_dir |-> local_is_dir, stat |-> stat]]

Arrow == <<" ", "-", ">", " ">>
Pex755 == <<"r", "w", "x", "r", "-", "x", "r", "-", "x">>
PexSticky == <<"r", "w", "x", "r", "w", "x", "r", "w", "t">>

\* The lines a listing is made of: the header, a file, a directory, "." and
\* "..", a character device, a directory with the sticky bit, a line whose
\* owner does not match, links (to a file, to a local directory, to a target
\* of the same name, to a target the server refuses, into a cycle, to
\* another link, one named
\* "." and one without a target), and a file with an arrow in its name.
LsLines ==
    {LsLine(FALSE, "t", <<"o", "t", "a", "l", " ", "8">>, FALSE, <<>>, FALSE, "none"),
     LsLine(TRUE, "-", Pex755, TRUE, <<"a">>, FALSE, "none"),
     LsLine(TRUE, "d", Pex755, TRUE, <<"S">>, FALSE, "none"),
     LsLine(FALSE, "d", Pex755, TRUE, <<".">>, FALSE, "none"),
     LsLine(FALSE, "d", Pex755, TRUE, <<".", ".">>, FALSE, "none"),
     LsLine(TRUE, "c", Pex755, TRUE, <<"c">>, FALSE, "none"),
     LsLine(TRUE, "d", PexSticky, TRUE, <<"T">>, FALSE, "none"),
     LsLine(TRUE, "-", Pex755, FALSE, <<"a">>, FALSE, "none"),
     LsLine(TRUE, "l", Pex755, TRUE, <<"k">> \o Arrow \o <<"a">>, FALSE, "entry"),
     LsLine(TRUE, "l", Pex755, TRUE, <<"k">> \o Arrow \o <<"/", "S">>, TRUE, "entry"),
     LsLine(TRUE, "l", Pex755, TRUE, <<"k">> \o Arrow \o <<"/", "k">>, FALSE, "entry"),
     LsLine(TRUE, "l", Pex755, TRUE, <<"k">> \o Arrow \o <<"a">>, FALSE, "refused"),
     LsLine(TRUE, "l", Pex755, TRUE, <<"k">> \o Arrow \o <<"b">>, FALSE, "cycle"),
     LsLine(TRUE, "l", Pex755, TRUE, <<"k">> \o Arrow \o <<"b">>, FALSE, "link"),
     LsLine(FALSE, "l", Pex755, TRUE, <<".">> \o Arrow \o <<"a">>, FALSE, "entry"),
     LsLine(TRUE, "l", Pex755, TRUE, <<"k">>, FALSE, "none"),
     LsLine(TRUE, "-", Pex755, TRUE, <<"k">> \o Arrow \o <<"a">>, FALSE, "none")}

\* What the channel of a listing command can do: fail as any command, or
\* deliver its output, here the sequence of its lines (str::lines).
Listings(lines, n) ==
    {[step |-> s, out |-> <<>>] : s \in {"channel", "exec", "read"}}
        \cup {[step |-> "done", out |-> l] : l \in SeqsUpTo(lines, n)}

\* The pattern with any nine characters for the permissions
LsMatchesAnyPex(line) ==
    /\ line.flag \in {"-", "l", "d"}
    /\ Len(line.pex) = 9
    /\ line.rest
    /\ line.token # <<>>

\* LS_RE.captures(line): the flag is one of - l d, the permissions are nine
\* characters of - r w x s, the middle tokens match and the name is not empty.
LsMatches(line) ==
    /\ line.flag \in {"-", "l", "d"}
    /\ Len(line.pex) = 9
    /\ \A i \in 1..Len(line.pex) : line.pex[i] \in {"-", "r", "w", "x", "s"}
    /\ line.rest
    /\ line.token # <<>>

\* str::split(" -> "): the pieces of the token between the arrows.
ArrowAt(s, i) == i + 3 <= Len(s) /\ SubSeq(s, i, i + 3) = Arrow
RECURSIVE SplitArrow(_)
SplitArrow(s) ==
    IF \E i \in 1..Len(s) : ArrowAt(s, i)
    THEN LET i == CHOOSE i \in 1..Len(s) :
                     ArrowAt(s, i) /\ \A j \in 1..(i - 1) : ~ArrowAt(s, j)
         IN <<SubSeq(s, 1, i - 1)>> \o SplitArrow(SubSeq(s, i + 4, Len(s)))
    ELSE <<s>>

\* get_name_and_link: the first piece is the name, the second the target.
get_name_and_link(token) ==
    LET tokens == SplitArrow(token) IN
    [name |-> tokens[1], link |-> IF Len(tokens) >= 2 THEN Some(tokens[2]) ELSE None]

\* Path::file_name(): the characters after the last separator; none for a
\* path that ends in a separator or in "..".
file_name(p) ==
    LET cut == {i \in 1..Len(p) : p[i] = "/"}
        from == IF cut = {} THEN 1 ELSE (CHOOSE i \in cut : \A j \in cut : j <= i) + 1
        tail == SubSeq(p, from, Len(p))
    IN IF tail = <<>> \/ tail = <<".", ".">> THEN None ELSE Some(tail)

\* The permission decoder with weights by letter: r 4, w 2, x 1
RECURSIVE PexCountByLetter(_, _)
PexCountByLetter(chars, i) ==
    IF i > Len(chars) THEN 0
    ELSE (CASE chars[i] = "r" -> 4 [] chars[i] = "w" -> 2 [] chars[i] = "x" -> 1
            [] OTHER -> 0)
         + PexCountByLetter(chars, i + 1)

\* The closure pex of parse_ls_output: over the characters of a range of the
\* permission field, a character other than "-" counts 4 at index 0, 2 at
\* index 1, 1 at index 2 and nothing elsewhere (i is the index plus one).
PexWeight(i) == CASE i = 1 -> 4 [] i = 2 -> 2 [] i = 3 -> 1 [] OTHER -> 0
RECURSIVE PexCount(_, _)
PexCount(chars, i) ==
    IF i > Len(chars) THEN 0
    ELSE (IF chars[i] = "-" THEN 0 ELSE PexWeight(i)) + PexCount(chars, i + 1)

\* pex(start..end) on the permission field s.
pex(s, start, end) == PexCount(SubSeq(s, start + 1, end), 1)

\* unix_pex = (pex(0..3), pex(3..6), pex(6..9))
unix_pex(s) == <<pex(s, 0, 3), pex(s, 3, 6), pex(s, 6, 9)>>

\* The parser without the test for "." and ".."
ParseLsKeepingDots(path, line) ==
    IF ~LsMatches(line) THEN [kind |-> "Err"]
    ELSE [kind |-> "Entry",
          variant |-> IF line.flag = "d" THEN "Directory" ELSE "File",
          name |-> line.token, abs_path |-> push(path, line.token),
          unix_pex |-> unix_pex(line.pex), symlink |-> FALSE, stats |-> 0]

\* parse_ls_output(path, line): no entry for a line that does not match; the
\* variant from the flag, or for a link with a target from Path::is_dir() of
\* the target; one stat of the target unless its file name is the link's
\* name, and the stat of a target that is a link stats that link's target in
\* turn; no entry for "." and "..".  stats: the stat commands sent for the
\* line.  A stat that never returns leaves the parser without a result
\* ("Abort").
parse_ls_output(path, line) ==
    IF ~LsMatches(line) THEN [kind |-> "Err"]
    ELSE LET nl == IF line.flag = "l" THEN get_name_and_link(line.token)
                   ELSE [name |-> line.token, link |-> None]
             is_dir == IF IsSome(nl.link) THEN line.target.local_is_dir
                       ELSE line.flag = "d"
             target_name == IF IsSome(nl.link) /\ IsSome(file_name(Unwrap(nl.link)))
                            THEN Unwrap(file_name(Unwrap(nl.link))) ELSE <<>>
             stats == IsSome(nl.link) /\ target_name # nl.name
             answer == IF ~stats THEN "skipped"
                       ELSE IF line.target.local_is_dir THEN "refused"
                       ELSE line.target.stat
         IN IF answer = "cycle" THEN [kind |-> "Abort"]
            ELSE IF nl.name = <<".">> \/ nl.name = <<".", ".">> THEN [kind |-> "Err"]
            ELSE [kind |-> "Entry",
                  variant |-> IF is_dir THEN "Directory" ELSE "File",
                  name |-> nl.name,
                  abs_path |-> push(path, nl.name),
                  unix_pex |-> unix_pex(line.pex),
                  symlink |-> (answer \in {"entry", "link"}),
                  stats |-> IF stats /\ ~line.target.local_is_dir
                            THEN (IF answer = "link" THEN 2 ELSE 1) ELSE 0]

\* for line in lines.iter(): push the entry of every line the parser accepts.
\* from: the line an entry was made of.
RECURSIVE ParseLines(_, _, _, _)
ParseLines(path, lines, i, entries) ==
    IF i > Len(lines) THEN Ok(entries)
    ELSE LET e == parse_ls_output(path, lines[i]) IN
         IF e.kind = "Abort" THEN Err("Abort")
         ELSE IF e.kind = "Entry"
              THEN ParseLines(path, lines, i + 1, Append(entries, [e EXCEPT !.kind = i]))
              ELSE ParseLines(path, lines, i + 1, entries)

\* list_dir: ls -la "<path>" on the session, then the parser on every line.
ScpListDirResult(path, ls) ==
    IF is_connected
    THEN LET r == perform_shell_cmd_with_path(ls) IN
         IF r.kind = "Ok" THEN ParseLines(path, r.val, 1, <<>>)
         ELSE ErrEx("ProtocolError", Detail)
    ELSE Err("UninitializedSession")

\* list_dir of the paths and on the listings given.
ScpListDirOn(paths, listings) ==
    /\ protocol = "scp"
    /\ \E path \in paths, ls \in listings :
          Return("list_dir", ScpListDirResult(path, ls),
                 [NoTrace EXCEPT !.args = Some([path |-> path, ls |-> ls])],
                 session, sftp, wrkdir)

\* The listings of the whole backend: the failures, the empty listing, and
\* the listings of one line.
ScpListDir == ScpListDirOn({<<"/">>}, Listings(LsLines, 1))

\* Path::parent of a path with a final component: the path without it.
parent(p) ==
    LET cut == {i \in 1..Len(p) : p[i] = "/"}
        at == IF cut = {} THEN 0 ELSE CHOOSE i \in cut : \A j \in cut : j <= i
    IN IF at = 0 THEN <<>> ELSE IF at = 1 THEN <<"/">> ELSE SubSeq(p, 1, at - 1)

\* What the server makes of ls -l "<abs>": the channel fails; or the path is
\* a directory and the output is the header and the lines of its children;
\* or it is not, and the output is empty (no such file), or one line whose
\* name token is the path as given: of a file, of a link to a file, of a link
\* into a cycle, of a character device.
StatAnswers(abs) ==
    {[remote_is_dir |-> d, ls |-> [step |-> s, out |-> <<>>]] :
        d \in BOOLEAN, s \in {"channel", "exec", "read"}}
    \cup {[remote_is_dir |-> TRUE, ls |-> [step |-> "done", out |-> o]] :
            o \in {<<LsLine(FALSE, "t", <<"o", "t", "a", "l", " ", "0">>, FALSE, <<>>,
                            FALSE, "none")>>,
                   <<LsLine(FALSE, "t", <<"o", "t", "a", "l", " ", "8">>, FALSE, <<>>,
                            FALSE, "none"),
                     LsLine(TRUE, "-", Pex755, TRUE, <<"a">>, FALSE, "none")>>}}
    \cup {[remote_is_dir |-> FALSE, ls |-> [step |-> "done", out |-> o]] :
            o \in {<<>>,
                   <<LsLine(TRUE, "-", Pex755, TRUE, abs, FALSE, "none")>>,
                   <<LsLine(TRUE, "l", Pex755, TRUE, abs \o Arrow \o <<"a">>, FALSE, "entry")>>,
                   <<LsLine(TRUE, "l", Pex755, TRUE, abs \o Arrow \o <<"b">>, FALSE, "cycle")>>,
                   <<LsLine(TRUE, "c", Pex755, TRUE, abs, FALSE, "none")>>}}

\* stat: localIsDir is Path::is_dir() of the argument, which asks the local
\* filesystem; then ls -l "<abs>" and the parser on the trimmed output as one
\* line, which an output of no line or of several lines does not match.
ScpStatResult(path, localIsDir, ls) ==
    IF localIsDir THEN ErrEx("UnsupportedFeature", Detail)
    ELSE LET abs == IF is_absolute(path) THEN path ELSE push(wrkdir, path) IN
         IF is_connected
         THEN LET r == perform_shell_cmd_with_path(ls) IN
              IF r.kind = "Ok"
              THEN IF ~has_parent(abs) THEN ErrEx("UnsupportedFeature", Detail)
                   ELSE IF Len(r.val) # 1 THEN Err("NoSuchFileOrDirectory")
                   ELSE LET e == parse_ls_output(parent(abs), r.val[1]) IN
                        IF e.kind = "Abort" THEN Err("Abort")
                        ELSE IF e.kind = "Entry" THEN Ok(e)
                        ELSE Err("NoSuchFileOrDirectory")
              ELSE ErrEx("ProtocolError", Detail)
         ELSE Err("UninitializedSession")

\* stat of the paths given.  sent: whether the listing command was sent.
ScpStatOn(paths) ==
    /\ protocol = "scp"
    /\ \E path \in paths, localIsDir \in BOOLEAN :
          \E a \in StatAnswers(IF is_absolute(path) THEN path ELSE push(wrkdir, path)) :
              Return("stat", ScpStatResult(path, localIsDir, a.ls),
                     [NoTrace EXCEPT !.args = Some([path |-> path,
                         local_is_dir |-> localIsDir,
                         remote_is_dir |-> a.remote_is_dir,
                         ls |-> a.ls,
                         sent |-> (~localIsDir /\ is_connected)])],
                     session, sftp, wrkdir)

\* The stat of the whole backend: of a relative file name.
ScpStat == ScpStatOn({<<"a">>})

\* exec that trims the output as the other commands do
ScpExecTrimmed(sh) ==
    IF is_connected
    THEN LET r == perform_shell_cmd_with_path(sh) IN
         IF r.kind = "Ok" THEN Ok(Trim(r.val)) ELSE ErrEx("ProtocolError", Detail)
    ELSE Err("UninitializedSession")

\* exec: the command in the working directory; its output as it is.
ScpExecResult(sh) ==
    IF is_connected
    THEN LET r == perform_shell_cmd_with_path(sh) IN
         IF r.kind = "Ok" THEN Ok(r.val) ELSE ErrEx("ProtocolError", Detail)
    ELSE Err("UninitializedSession")

\* cmd: the argument; sh: what the command channel does; shell_cmd: the
\* command line handed to perform_shell_cmd.
ScpExec ==
    /\ protocol = "scp"
    /\ \E cmd \in Commands, sh \in ShellOutcomes :
          Return("exec", ScpExecResult(sh),
                 [NoTrace EXCEPT !.args = Some([cmd |-> cmd, sh |-> sh,
                     shell_cmd |-> IF is_connected
                                   THEN Some(ShellCommand(wrkdir, cmd)) ELSE None])],
                 session, sftp, wrkdir)

\* send_file / recv_file: set_blocking(true) on the session, then scp_send /
\* scp_recv; ok: the transport opens the channel.
ScpTransferResult(ok) ==
    IF IsSome(session)
    THEN IF ok THEN Ok(<<>>) ELSE ErrEx("ProtocolError", Detail)
    ELSE Err("UninitializedSession")

ScpBlocking ==
    IF IsSome(session) THEN Some([Unwrap(session) EXCEPT !.blocking = TRUE]) ELSE session

\* The file mode written as decimal digits
FileModeDecimal(perms) ==
    IF ~IsSome(perms) THEN 420
    ELSE Unwrap(perms)[1] * 100 + Unwrap(perms)[2] * 10 + Unwrap(perms)[3]

\* let mode: i32 = match local.unix_pex: 0o644 for none, else
\* (u << 6) + (g << 3) + o.
FileMode(perms) ==
    IF ~IsSome(perms) THEN 420
    ELSE Unwrap(perms)[1] * 64 + Unwrap(perms)[2] * 8 + Unwrap(perms)[3]

\* The declared size taken from the descriptor whatever the disk says
ScpFileSizeCached(local, disk) == local.size

\* let file_size: u64: the length std::fs::metadata(local.abs_path) reports,
\* or local.size when the metadata cannot be read.  disk: the file as it is
\* on the local disk, its length (none for no file) and whether its
\* metadata can be read.
ScpFileSize(local, disk) ==
    IF disk.metadata /\ IsSome(disk.len) THEN Unwrap(disk.len) ELSE local.size

\* A local file descriptor (FsFile): the cached permissions and size.
FsFile(perms, size) == [unix_pex |-> perms, size |-> size]

\* The local disk: no file, or a file of a length whose metadata can or
\* cannot be read.
Disks(sizes) ==
    {[len |-> None, metadata |-> FALSE]}
        \cup {[len |-> Some(n), metadata |-> m] : n \in sizes, m \in BOOLEAN}

\* send_file of the descriptors given, each on the disk given with it.
\* sent: what scp_send is called with.
ScpSendFileOn(inputs) ==
    /\ protocol = "scp"
    /\ \E in \in inputs, ok \in BOOLEAN :
          Return("send_file", ScpTransferResult(ok),
                 [NoTrace EXCEPT !.args = Some([local |-> in.local, disk |-> in.disk,
                     sent |-> IF IsSome(session)
                              THEN Some([mode |-> FileMode(in.local.unix_pex),
                                         size |-> ScpFileSize(in.local, in.disk)])
                              ELSE None])],
                 ScpBlocking, sftp, wrkdir)

\* The descriptor of the whole backend: no permissions, on a file that has
\* grown since.
ScpSendFile ==
    ScpSendFileOn({[local |-> FsFile(None, 0), disk |-> [len |-> Some(1), metadata |-> TRUE]]})

ScpRecvFile ==
    /\ protocol = "scp"
    /\ \E ok \in BOOLEAN :
          Return("recv_file", ScpTransferResult(ok), NoTrace, ScpBlocking, sftp, wrkdir)

ScpOnSent ==
    /\ protocol = "scp"
    /\ ReturnSame("on_sent", Ok(<<>>))

ScpOnRecv ==
    /\ protocol = "scp"
    /\ ReturnSame("on_recv", Ok(<<>>))

\* ------------------------------------------------------ SftpFileTransfer
\* What the server may answer realpath with.
RealpathAnswers == {None} \cup {Some(p) : p \in CanonPaths}

\* The argument of a change_dir: the directories and a relative one with a
\* trailing separator.
SftpDirs == Dirs \cup {<<"p", "/">>}

\* The path get_remote_path hands to realpath: the path itself when
\* absolute, the working directory with the path pushed otherwise.
RealpathRequest(p) == IF is_absolute(p) THEN p ELSE push(wrkdir, p)

\* get_remote_path that takes the canonical path without the stat
GetRemotePathWithoutStat(p, real, statOk) ==
    IF IsSome(real) THEN Ok(Unwrap(real))
    ELSE IF is_absolute(p) THEN Err("NoSuchFileOrDirectory")
    ELSE ErrEx("NoSuchFileOrDirectory", Detail)

\* get_remote_path: realpath of the path (joined to the working directory
\* when relative), then a stat of the canonical path.
\* real: the server's answer to realpath; statOk: its answer to stat.
get_remote_path(p, real, statOk) ==
    IF ~is_absolute(p)
    THEN IF IsSome(real)
         THEN IF statOk THEN Ok(Unwrap(real)) ELSE ErrEx("NoSuchFileOrDirectory", Detail)
         ELSE ErrEx("NoSuchFileOrDirectory", Detail)
    ELSE IF IsSome(real)
         THEN IF statOk THEN Ok(Unwrap(real)) ELSE ErrEx("NoSuchFileOrDirectory", Detail)
         ELSE Err("NoSuchFileOrDirectory")

\* Every answer get_remote_path can give for some path and some server.
RemotePathAnswers ==
    {get_remote_path(p, real, statOk) :
        p \in Dirs, real \in RealpathAnswers, statOk \in BOOLEAN}

\* disconnect that clears the session and leaves the sftp channel
SftpDisconnectKeepingChannel ==
    /\ protocol = "sftp"
    /\ IF IsSome(session)
       THEN \E ok \in BOOLEAN :
              IF ok THEN Return("disconnect", Ok(<<>>), DisconnectTrace(ok),
                                None, sftp, wrkdir)
              ELSE Return("disconnect", ErrEx("ConnectionError", Detail),
                          DisconnectTrace(ok), session, sftp, wrkdir)
       ELSE ReturnSame("disconnect", Err("UninitializedSession"))

\* disconnect: session.disconnect(None, "Mandi!", None); ok: the transport
\* accepts it, and then session and sftp are both cleared.
SftpDisconnect ==
    /\ protocol = "sftp"
    /\ IF IsSome(session)
       THEN \E ok \in BOOLEAN :
              IF ok THEN Return("disconnect", Ok(<<>>), DisconnectTrace(ok),
                                None, None, wrkdir)
              ELSE Return("disconnect", ErrEx("ConnectionError", Detail),
                          DisconnectTrace(ok), session, sftp, wrkdir)
       ELSE ReturnSame("disconnect", Err("UninitializedSession"))

SftpIsConnected ==
    /\ protocol = "sftp"
    /\ ReturnSame("is_connected", Ok(<<is_connected>>))

SftpPwdResult ==
    IF IsSome(sftp) THEN Ok(wrkdir) ELSE Err("UninitializedSession")

SftpPwd ==
    /\ protocol = "sftp"
    /\ ReturnSame("pwd", SftpPwdResult)

\* change_dir: the result and the working directory the call leaves.
SftpChangeDirResult(remote) ==
    IF IsSome(sftp)
    THEN IF remote.kind = "Ok"
         THEN [result |-> Ok(remote.val), wrkdir |-> remote.val]
         ELSE [result |-> remote, wrkdir |-> wrkdir]
    ELSE [result |-> Err("UninitializedSession"), wrkdir |-> wrkdir]

\* What the metadata of a successful stat says the canonical path is: a
\* directory or not (FileStat::is_dir); get_remote_path matches it with Ok(_).
StatKinds(real, statOk) == IF IsSome(real) /\ statOk THEN BOOLEAN ELSE {FALSE}

\* is_dir: whether the path the server canonicalized and stat'ed is a directory.
SftpChangeDir ==
    /\ protocol = "sftp"
    /\ \E dir \in SftpDirs, real \in RealpathAnswers, statOk \in BOOLEAN :
       \E is_dir \in StatKinds(real, statOk) :
          LET c == SftpChangeDirResult(get_remote_path(dir, real, statOk)) IN
          Return("change_dir", c.result,
                 [NoTrace EXCEPT !.args = Some([dir |-> dir, sent |-> RealpathRequest(dir),
                                                real |-> real, statOk |-> statOk,
                                                is_dir |-> is_dir])],
                 session, sftp, c.wrkdir)

\* copy that tests the sftp channel first
SftpCopyChecked ==
    IF IsSome(sftp) THEN Err("UnsupportedFeature") ELSE Err("UninitializedSession")

SftpCopyResult == Err("UnsupportedFeature")

SftpCopy ==
    /\ protocol = "sftp"
    /\ ReturnSame("copy", SftpCopyResult)

\* stat: get_remote_path, then stat of the canonical path, then make_fsentry
\* of that path, whose path.file_name().unwrap() panics on a path without a
\* final component.
SftpStatResult(remote, statOk) ==
    IF IsSome(sftp)
    THEN IF remote.kind # "Ok" THEN remote
         ELSE IF ~statOk THEN ErrEx("NoSuchFileOrDirectory", Detail)
         ELSE IF ~IsSome(file_name(remote.val)) THEN Err("Abort")
         ELSE Ok([name |-> Unwrap(file_name(remote.val)), abs_path |-> remote.val])
    ELSE Err("UninitializedSession")

\* ---- list_dir and make_fsentry
\* A (path, metadata) pair of readdir, with what the server answers when the
\* pair is a link: readlink (the target, or nothing), realpath of the target
\* (the canonical path, or nothing) and whether the stats of it succeed.
SftpPair(path, is_dir, is_symlink, perm, readlink, real, statOk) ==
    [path |-> path, is_dir |-> is_dir, is_symlink |-> is_symlink, perm |-> perm,
     readlink |-> readlink, real |-> real, statOk |-> statOk]

\* The pairs a directory read is made of: a file, a directory, a link to a
\* file, a link that cannot be read, a link whose target does not exist, and
\* a link to the root.
SftpPairs ==
    {SftpPair(<<"/", "a">>, FALSE, FALSE, Some(420), None, None, FALSE),
     SftpPair(<<"/", "S">>, TRUE, FALSE, Some(493), None, None, FALSE),
     SftpPair(<<"/", "k">>, FALSE, TRUE, Some(511), Some(<<"/", "a">>),
              Some(<<"/", "a">>), TRUE),
     SftpPair(<<"/", "k">>, FALSE, TRUE, None, None, None, FALSE),
     SftpPair(<<"/", "k">>, FALSE, TRUE, Some(511), Some(<<"/", "x">>), None, FALSE),
     SftpPair(<<"/", "k">>, FALSE, TRUE, Some(511), Some(<<"/">>), Some(<<"/">>), TRUE)}

\* What readdir can answer: a failure, or up to n pairs.
DirReads(pairs, n) == {None} \cup {Some(l) : l \in SeqsUpTo(pairs, n)}

\* metadata.perm.map: ((x >> 6) & 0x7, (x >> 3) & 0x7, x & 0x7)
PexOfPerm(perm) ==
    IF ~IsSome(perm) THEN None
    ELSE LET x == Unwrap(perm) IN Some(<<(x \div 64) % 8, (x \div 8) % 8, x % 8>>)

\* make_fsentry that drops an entry whose link cannot be resolved
MakeEntryDroppingBrokenLinks(pair) ==
    IF pair.is_symlink /\ (~IsSome(pair.readlink) \/ ~IsSome(pair.real) \/ ~pair.statOk)
    THEN [kind |-> "Err"]
    ELSE [kind |-> "Entry",
          variant |-> IF pair.is_dir THEN "Directory" ELSE "File",
          name |-> Unwrap(file_name(pair.path)),
          abs_path |-> pair.path,
          unix_pex |-> PexOfPerm(pair.perm),
          symlink |-> pair.is_symlink,
          readlinks |-> 0, stats |-> 0]

\* make_fsentry(path, metadata): for a link readlink and stat of the target,
\* errors ignored; the variant from metadata.is_dir(); the name from
\* path.file_name().unwrap().
make_fsentry(pair) ==
    LET target == IF pair.is_symlink /\ IsSome(pair.readlink)
                  THEN SftpStatResult(get_remote_path(Unwrap(pair.readlink), pair.real,
                                                      pair.statOk),
                                      pair.statOk)
                  ELSE Err("None")
    IN IF target.kind = "Abort" \/ ~IsSome(file_name(pair.path)) THEN [kind |-> "Abort"]
       ELSE [kind |-> "Entry",
             variant |-> IF pair.is_dir THEN "Directory" ELSE "File",
             name |-> Unwrap(file_name(pair.path)),
             abs_path |-> pair.path,
             unix_pex |-> PexOfPerm(pair.perm),
             symlink |-> (target.kind = "Ok"),
             readlinks |-> IF pair.is_symlink THEN 1 ELSE 0,
             stats |-> IF pair.is_symlink /\ IsSome(pair.readlink) THEN 1 ELSE 0]

\* for (path, metadata) in files: push make_fsentry.  from: the pair an
\* entry was made of.
RECURSIVE MakeEntries(_, _, _)
MakeEntries(pairs, i, entries) ==
    IF i > Len(pairs) THEN Ok(entries)
    ELSE LET e == make_fsentry(pairs[i]) IN
         IF e.kind = "Abort" THEN Err("Abort")
         ELSE IF e.kind = "Entry"
              THEN MakeEntries(pairs, i + 1, Append(entries, [e EXCEPT !.kind = i]))
              ELSE MakeEntries(pairs, i + 1, entries)

\* list_dir: get_remote_path, then readdir, then make_fsentry of every pair.
\* read: the answer of readdir.
SftpListDirResult(remote, read) ==
    IF IsSome(sftp)
    THEN IF remote.kind # "Ok" THEN remote
         ELSE IF IsSome(read) THEN MakeEntries(Unwrap(read), 1, <<>>)
         ELSE ErrEx("DirStatFailed", Detail)
    ELSE Err("UninitializedSession")

\* list_dir on the directory reads given.
SftpListDirOn(reads) ==
    /\ protocol = "sftp"
    /\ \E remote \in RemotePathAnswers, read \in reads :
          Return("list_dir", SftpListDirResult(remote, read),
                 [NoTrace EXCEPT !.args = Some([remote |-> remote, read |-> read])],
                 session, sftp, wrkdir)

\* The directory reads of the whole backend: the failure, the empty
\* directory, and the directories of one pair.
SftpListDir == SftpListDirOn(DirReads(SftpPairs, 1))

\* A refused call reported as a failure of the protocol
SftpCallProtocolError(ok, denied) ==
    IF IsSome(sftp)
    THEN IF ok THEN Ok(<<>>) ELSE ErrEx("ProtocolError", Detail)
    ELSE Err("UninitializedSession")

\* A refused call reported as PexError whatever the operation
SftpCallPexError(ok, denied) ==
    IF IsSome(sftp)
    THEN IF ok THEN Ok(<<>>) ELSE ErrEx("PexError", Detail)
    ELSE Err("UninitializedSession")

\* mkdir(path, 0o775), rename, open_mode and open: ok is the server's answer.
SftpCallResult(ok, denied) ==
    IF IsSome(sftp)
    THEN IF ok THEN Ok(<<>>) ELSE ErrEx(denied, Detail)
    ELSE Err("UninitializedSession")

SftpMkdir ==
    /\ protocol = "sftp"
    /\ \E ok \in BOOLEAN :
          Return("mkdir", SftpCallResult(ok, "FileCreateDenied"),
                 [NoTrace EXCEPT !.args = Some([ok |-> ok])], session, sftp, wrkdir)

\* ---- remove
\* An FsEntry of the remote side, with the children the server lists for a
\* directory, in the order it lists them.  A path is the sequence of its names.
File(path) == [kind |-> "file", path |-> path, children |-> <<>>]
Directory(path, children) == [kind |-> "dir", path |-> path, children |-> children]

\* The entries remove is called with: a file, an empty directory, and a
\* directory with a file and a sub-directory, in both orders.
RemoteEntries ==
    LET sub == Directory(<<"D", "S">>, <<File(<<"D", "S", "b">>)>>)
        a == File(<<"D", "a">>)
    IN {File(<<"f">>), Directory(<<"E">>, <<>>),
        Directory(<<"D">>, <<a, sub>>), Directory(<<"D">>, <<sub, a>>)}

\* The calls to the server that removing an entry can lead to.
RECURSIVE ServerCalls(_)
ServerCalls(entry) ==
    IF entry.kind = "file" THEN {<<"unlink", entry.path>>}
    ELSE {<<"realpath", entry.path>>, <<"readdir", entry.path>>, <<"rmdir", entry.path>>}
            \cup UNION {ServerCalls(entry.children[i]) : i \in 1..Len(entry.children)}

\* An entry with the calls the server refuses, at most MaxFail of them.
RemoveInputs ==
    UNION {{[entry |-> e, fail |-> f] :
               f \in {g \in SUBSET ServerCalls(e) : Cardinality(g) <= MaxFail}} :
           e \in RemoteEntries}

\* The progress of one remove: the calls made so far, the paths removed from
\* the server so far, and the result so far.
RemoveStart == [events |-> <<>>, removed |-> {}, result |-> Ok(<<>>)]

\* One call to the server: it is logged, removes the path when it is an
\* accepted unlink or rmdir, and gives the error err when refused.
ServerCall(st, call, path, fail, err, listed) ==
    LET ok == <<call, path>> \notin fail IN
    [events |-> Append(st.events, [ev |-> call, path |-> path, ok |-> ok,
                                   children |-> IF ok THEN listed ELSE <<>>]),
     removed |-> IF ok /\ call \in {"unlink", "rmdir"}
                 THEN st.removed \cup {path} ELSE st.removed,
     result |-> IF ok THEN Ok(<<>>) ELSE err]

RECURSIVE SftpRemoveEntry(_, _, _)
RECURSIVE SftpRemoveChildren(_, _, _)

\* remove of a directory that issues rmdir before it removes the children
SftpRemoveRmdirFirst(entry, fail, st) ==
    IF entry.kind = "file"
    THEN ServerCall(st, "unlink", entry.path, fail, ErrEx("PexError", Detail), <<>>)
    ELSE LET s1 == ServerCall(st, "rmdir", entry.path, fail, ErrEx("PexError", Detail), <<>>)
         IN IF s1.result.kind # "Ok" THEN s1
            ELSE SftpRemoveChildren(entry.children, fail, s1)

\* The loop over the children that goes on after a child could not be removed
SftpRemoveChildrenGoingOn(children, fail, st) ==
    IF children = <<>> THEN st
    ELSE LET s1 == SftpRemoveEntry(Head(children), fail, st)
             s2 == SftpRemoveChildren(Tail(children), fail, s1)
         IN IF s1.result.kind # "Ok" THEN [s2 EXCEPT !.result = s1.result] ELSE s2

\* remove(file) with an sftp channel: unlink for a file; for a directory
\* list_dir (get_remote_path, then readdir), remove of every entry listed,
\* returning the first error, and finally rmdir.
SftpRemoveEntry(entry, fail, st) ==
    IF entry.kind = "file"
    THEN ServerCall(st, "unlink", entry.path, fail, ErrEx("PexError", Detail), <<>>)
    ELSE LET s1 == ServerCall(st, "realpath", entry.path, fail,
                              ErrEx("NoSuchFileOrDirectory", Detail), <<>>)
         IN IF s1.result.kind # "Ok" THEN s1
            ELSE LET s2 == ServerCall(s1, "readdir", entry.path, fail,
                                      ErrEx("DirStatFailed", Detail),
                                      [i \in 1..Len(entry.children) |->
                                          entry.children[i].path])
                 IN IF s2.result.kind # "Ok" THEN s2
                    ELSE LET s3 == SftpRemoveChildren(entry.children, fail, s2)
                         IN IF s3.result.kind # "Ok" THEN s3
                            ELSE ServerCall(s3, "rmdir", entry.path, fail,
                                            ErrEx("PexError", Detail), <<>>)

\* for entry in directory_content.iter(): return the first Err of remove.
SftpRemoveChildren(children, fail, st) ==
    IF children = <<>> THEN st
    ELSE LET s1 == SftpRemoveEntry(Head(children), fail, st)
         IN IF s1.result.kind # "Ok" THEN s1
            ELSE SftpRemoveChildren(Tail(children), fail, s1)

\* remove: what the call did, from the test of the sftp channel on.
SftpRemoveResult(in) ==
    IF ~IsSome(sftp) THEN [RemoveStart EXCEPT !.result = Err("UninitializedSession")]
    ELSE SftpRemoveEntry(in.entry, in.fail, RemoveStart)

SftpRemove ==
    /\ protocol = "sftp"
    /\ \E done \in {[entry |-> in.entry, st |-> SftpRemoveResult(in)] : in \in RemoveInputs} :
          Return("remove", done.st.result,
                 [NoTrace EXCEPT !.args = Some([entry |-> done.entry]),
                                 !.events = done.st.events,
                                 !.removed = done.st.removed],
                 session, sftp, wrkdir)

SftpRename ==
    /\ protocol = "sftp"
    /\ \E ok \in BOOLEAN :
          Return("rename", SftpCallResult(ok, "FileCreateDenied"),
                 [NoTrace EXCEPT !.args = Some([ok |-> ok])], session, sftp, wrkdir)

SftpStat ==
    /\ protocol = "sftp"
    /\ \E r \in {SftpStatResult(remote, statOk) :
                    remote \in RemotePathAnswers, statOk \in BOOLEAN} :
          ReturnSame("stat", r)

\* exec: a shell command on the transport session, in the working directory.
SftpExecResult(sh) ==
    IF is_connected
    THEN LET r == perform_shell_cmd(session, sh) IN
         IF r.kind = "Ok" THEN Ok(r.val) ELSE ErrEx("ProtocolError", Detail)
    ELSE Err("UninitializedSession")

SftpExec ==
    /\ protocol = "sftp"
    /\ \E cmd \in Commands, sh \in ShellOutcomes :
          Return("exec", SftpExecResult(sh),
                 [NoTrace EXCEPT !.args = Some([cmd |-> cmd, sh |-> sh,
                     shell_cmd |-> IF is_connected
                                   THEN Some(ShellCommand(wrkdir, cmd)) ELSE None])],
                 session, sftp, wrkdir)

\* send_file of the descriptors given: get_abs_path, the file mode, then
\* open_mode.  sent: the mode open_mode is called with.
SftpSendFileOn(locals) ==
    /\ protocol = "sftp"
    /\ \E local \in locals, ok \in BOOLEAN :
          Return("send_file", SftpCallResult(ok, "FileCreateDenied"),
                 [NoTrace EXCEPT !.args = Some([local |-> local,
                     sent |-> IF IsSome(sftp)
                              THEN Some([mode |-> FileMode(local.unix_pex)])
                              ELSE None])],
                 session, sftp, wrkdir)

SftpSendFile == SftpSendFileOn({FsFile(None, 0)})

\* recv_file: get_remote_path, then open; openOk: the server opens the file.
SftpRecvFileResult(remote, openOk) ==
    IF IsSome(sftp)
    THEN IF remote.kind # "Ok" THEN remote
         ELSE IF openOk THEN Ok(<<>>) ELSE ErrEx("NoSuchFileOrDirectory", Detail)
    ELSE Err("UninitializedSession")

SftpRecvFile ==
    /\ protocol = "sftp"
    /\ \E r \in {SftpRecvFileResult(remote, openOk) :
                    remote \in RemotePathAnswers, openOk \in BOOLEAN} :
          ReturnSame("recv_file", r)

SftpOnSent ==
    /\ protocol = "sftp"
    /\ ReturnSame("on_sent", Ok(<<>>))

SftpOnRecv ==
    /\ protocol = "sftp"
    /\ ReturnSame("on_recv", Ok(<<>>))

\* ------------------------------------------------------------ the system
Next ==
    \/ ScpConnect
    \/ ScpDisconnect
    \/ ScpIsConnected
    \/ ScpPwd
    \/ ScpChangeDir
    \/ ScpCopy
    \/ ScpListDir
    \/ ScpMkdir
    \/ ScpRemove
    \/ ScpRename
    \/ ScpStat
    \/ ScpExec
    \/ ScpSendFile
    \/ ScpRecvFile
    \/ ScpOnSent
    \/ ScpOnRecv
    \/ SftpConnect
    \/ SftpDisconnect
    \/ SftpIsConnected
    \/ SftpPwd
    \/ SftpChangeDir
    \/ SftpCopy
    \/ SftpListDir
    \/ SftpMkdir
    \/ SftpRemove
    \/ SftpRename
    \/ SftpStat
    \/ SftpExec
    \/ SftpSendFile
    \/ SftpRecvFile
    \/ SftpOnSent
    \/ SftpOnRecv

Spec == Init /\ [][Next]_vars

\* ------------------------------------------------------------ list_dir
\* list_dir and stat on a connected backend, over every listing of up to
\* MaxLines lines and every directory read of up to MaxLines pairs.
\* The backend as a successful connect("h1", port, None, None) leaves it when
\* the first address accepts and the server's working directory is "/".
ListInit ==
    /\ protocol \in {"scp", "sftp"}
    /\ key_storage = {}
    /\ session = Some(NewSession(1))
    /\ sftp = IF protocol = "sftp" THEN Some(NewSftp(NewSession(1))) ELSE None
    /\ wrkdir = <<"/">>
    /\ last = [op |-> "connect", res |-> "Ok", msg |-> "", val |-> BannerOf(1),
               trace |-> [NoTrace EXCEPT
                   !.args = Some([address |-> "h1", username |-> None,
                                  password |-> None]),
                   !.resolved = Some([ok |-> TRUE, addrs |-> <<1>>]),
                   !.reach = {1},
                   !.events = <<[ev |-> "tcp", addr |-> 1, ok |-> TRUE]>>
                                 \o Authenticate("h1", None, None, TRUE).events,
                   !.cwd = Some(<<"/">>)]]
    /\ connectCalled = TRUE
    /\ cleared = FALSE
    /\ lastSet = Some(<<"/">>)
    /\ NoManager /\ NoRadio /\ NoLogBox

ScpListDirAll == ScpListDirOn({<<"/">>, <<"S">>}, Listings(LsLines, MaxLines))

SftpListDirAll == SftpListDirOn(DirReads(SftpPairs, MaxLines))

\* stat of a relative file name, of an absolute one and of the root.
ScpStatAll == ScpStatOn({<<"a">>, <<"/", "S", "a">>, <<"/">>})

ListNext ==
    \/ ScpListDirAll
    \/ SftpListDirAll
    \/ ScpStatAll
    \/ SftpStat

ListSpec == ListInit /\ [][ListNext]_vars

\* ------------------------------------------------- permission decoding
\* The shell-copy parser on lines that differ in their permission field:
\* "---------", and "rwxr-xr--" with one of its three groups replaced by any
\* three characters over the alphabet of ls.
PexAlphabet == {"-", "r", "w", "x", "s", "t", "S", "T"}
PexGroups == [1..3 -> PexAlphabet]
PexStrings ==
    {<<"-", "-", "-", "-", "-", "-", "-", "-", "-">>}
        \cup {g \o <<"r", "-", "x", "r", "-", "-">> : g \in PexGroups}
        \cup {<<"r", "w", "x">> \o g \o <<"r", "-", "-">> : g \in PexGroups}
        \cup {<<"r", "w", "x", "r", "-", "x">> \o g : g \in PexGroups}
PexLines == {LsLine(TRUE, "-", s, TRUE, <<"a">>, FALSE, "none") : s \in PexStrings}

PexInit == ListInit /\ protocol = "scp"

ScpListDirPex ==
    ScpListDirOn({<<"/">>}, {[step |-> "done", out |-> <<l>>] : l \in PexLines})

PexNext == ScpListDirPex

PexSpec == PexInit /\ [][PexNext]_vars

\* ------------------------------------------------------------ file modes
\* send_file of descriptors with every permission triple, on local files
\* of every length up to MaxSize, and list_dir of a directory whose one
\* file has the permission bits of ReadPerms.
PexTriples == {<<u, g, o>> : u \in 0..7, g \in 0..7, o \in 0..7}

SendLocals ==
    {FsFile(Some(t), 0) : t \in PexTriples}
        \cup {FsFile(None, n) : n \in 0..MaxSize}

ScpSendFileAll ==
    ScpSendFileOn({[local |-> FsFile(Some(t), 0), disk |-> [len |-> Some(0), metadata |-> TRUE]] :
                      t \in PexTriples}
                  \cup {[local |-> FsFile(None, n), disk |-> d] :
                           n \in 0..MaxSize, d \in Disks(0..MaxSize)})

SftpSendFileAll == SftpSendFileOn(SendLocals)

\* The permission bits read back: every combination of the digits 0, 1, 2,
\* 4 and 7, and two modes with the type bits of a regular file (0o100000).
ReadPerms ==
    {u * 64 + g * 8 + o : u \in {0, 1, 2, 4, 7}, g \in {0, 1, 2, 4, 7}, o \in {0, 1, 2, 4, 7}}
        \cup {32768 + m : m \in {420, 493}}

SftpListDirPerm ==
    SftpListDirOn({Some(<<SftpPair(<<"/", "a">>, FALSE, FALSE, Some(x), None, None, FALSE)>>) :
                      x \in ReadPerms})

SendNext ==
    \/ ScpSendFileAll
    \/ SftpSendFileAll
    \/ SftpListDirPerm

SendSpec == ListInit /\ [][SendNext]_vars

\* ------------------------------------------------------ ActivityManager
\* NextActivity, and ExitReason as run matches it.
Activities == {"Authentication", "FileTransfer", "SetupActivity"}
ExitReasons == {"Quit", "Connect", "Disconnect", "EnterSetup"}

\* Context, of which the manager reads ft_params.is_some().
Context(has_params) == [ft_params |-> has_params]

\* Activities one run may enter.
MaxEntered == 3

\* ActivityManager::new: a context without transfer parameters.  The other
\* fields are where run stands
\*   pc                idle: outside run; match: at the match of run's loop;
\*                     loop: in the loop of run_<activity>; abort: panicked
\*   current_activity  the local of run
\*   activity          the activity run_<activity> was last called for,
\*   had_context       whether that call found a context,
\*   had_params        and whether the context had transfer parameters
\*   held              the context the running activity holds since on_create
\*   will_umount       the latest answer of will_umount in that call
\*   entered           the activities created in this run
\*   returned          run has returned
ActivityManagerNew ==
    [context |-> Some(Context(FALSE)),
     pc |-> "idle",
     current_activity |-> None,
     activity |-> None,
     had_context |-> FALSE,
     had_params |-> FALSE,
     held |-> None,
     will_umount |-> None,
     entered |-> 0,
     returned |-> FALSE]

Mgr == Unwrap(manager)

ManagerStep(m2) ==
    /\ manager' = Some(m2)
    /\ UNCHANGED <<protocol, key_storage, session, sftp, wrkdir, last, connectCalled,
                   cleared, lastSet, radio, logbox>>

\* set_filetransfer_params: self.context.as_mut().unwrap().ft_params = Some(..)
set_filetransfer_params ==
    /\ IsSome(manager)
    /\ Mgr.pc = "idle"
    /\ IF IsSome(Mgr.context)
       THEN ManagerStep([Mgr EXCEPT !.context = Some(Context(TRUE))])
       ELSE ManagerStep([Mgr EXCEPT !.pc = "abort"])

\* run(launch_activity) up to the loop.
run ==
    /\ IsSome(manager)
    /\ Mgr.pc = "idle"
    /\ \E launch_activity \in Activities :
          ManagerStep([Mgr EXCEPT !.pc = "match",
                                  !.current_activity = Some(launch_activity),
                                  !.activity = None,
                                  !.had_context = FALSE,
                                  !.had_params = FALSE,
                                  !.will_umount = None,
                                  !.entered = 0,
                                  !.returned = FALSE])

\* None => break, then drop(self.context.take()): run returns.
RunBreak ==
    /\ IsSome(manager)
    /\ Mgr.pc = "match"
    /\ Mgr.current_activity = None
    /\ ManagerStep([Mgr EXCEPT !.pc = "idle", !.context = None, !.returned = TRUE])

\* The head of run_<activity>: self.context.take(); without a context the
\* call returns None; run_filetransfer also returns None, dropping the
\* context it took, when the context has no ft_params; otherwise the
\* activity is created with the context.
RunActivity(a) ==
    /\ IsSome(manager)
    /\ Mgr.pc = "match"
    /\ Mgr.current_activity = Some(a)
    /\ LET called == [Mgr EXCEPT !.activity = Some(a), !.will_umount = None,
                                 !.had_context = IsSome(Mgr.context),
                                 !.had_params = IsSome(Mgr.context)
                                                  /\ Unwrap(Mgr.context).ft_params,
                                 !.context = None]
       IN IF ~called.had_context \/ (a = "FileTransfer" /\ ~called.had_params)
          THEN ManagerStep([called EXCEPT !.current_activity = None])
          ELSE /\ Mgr.entered < MaxEntered
               /\ ManagerStep([called EXCEPT !.pc = "loop", !.held = Mgr.context,
                                             !.entered = Mgr.entered + 1])

\* The loops of run_<activity>: what the match makes of an exit reason.
\* break: the loop ends; result: the value the call then returns.
Continue == [break |-> FALSE, result |-> None]
Break(result) == [break |-> TRUE, result |-> result]

run_authentication(exit_reason) ==
    IF exit_reason = "Quit" THEN Break(None)
    ELSE IF exit_reason = "EnterSetup" THEN Break(Some("SetupActivity"))
    ELSE IF exit_reason = "Connect" THEN Break(Some("FileTransfer"))
    ELSE Continue

run_filetransfer(exit_reason) ==
    IF exit_reason = "Quit" THEN Break(None)
    ELSE IF exit_reason = "Disconnect" THEN Break(Some("Authentication"))
    ELSE Continue

\* run_setup that leaves its loop on every exit reason
RunSetupLeavingOnAnyReason(exit_reason) == Break(Some("Authentication"))

run_setup(exit_reason) ==
    IF exit_reason = "Quit" THEN Break(Some("Authentication")) ELSE Continue

\* activity.on_destroy(): the context of the activity handed back, with or
\* without transfer parameters, or nothing.
OnDestroyAnswers == {None, Some(Context(FALSE)), Some(Context(TRUE))}

\* One turn of the loop of run_<activity>: on_draw, will_umount, the match,
\* and then either sleep(interval) or on_destroy and the return to run.
ActivityLoop(a, will_umount, matched) ==
    IF matched.break
    THEN \E context \in OnDestroyAnswers :
            ManagerStep([Mgr EXCEPT !.pc = "match", !.will_umount = will_umount,
                                    !.held = None, !.context = context,
                                    !.current_activity = matched.result])
    ELSE ManagerStep([Mgr EXCEPT !.will_umount = will_umount])

\* What will_umount answers: no exit reason, or one.
WillUmountAnswers == {None} \cup {Some(r) : r \in ExitReasons}

InLoopOf(a) == IsSome(manager) /\ Mgr.pc = "loop" /\ Mgr.activity = Some(a)

AuthenticationLoop ==
    /\ InLoopOf("Authentication")
    /\ \E w \in WillUmountAnswers :
          ActivityLoop("Authentication", w,
                       IF IsSome(w) THEN run_authentication(Unwrap(w)) ELSE Continue)

FileTransferLoop ==
    /\ InLoopOf("FileTransfer")
    /\ \E w \in WillUmountAnswers :
          ActivityLoop("FileTransfer", w,
                       IF IsSome(w) THEN run_filetransfer(Unwrap(w)) ELSE Continue)

SetupLoop ==
    /\ InLoopOf("SetupActivity")
    /\ \E w \in WillUmountAnswers :
          ActivityLoop("SetupActivity", w,
                       IF IsSome(w) THEN run_setup(Unwrap(w)) ELSE Continue)

RunAuthentication == RunActivity("Authentication")
RunFileTransfer == RunActivity("FileTransfer")
RunSetup == RunActivity("SetupActivity")

\* The manager of a program that has constructed nothing else.
ManagerInit ==
    /\ FileTransferNew /\ protocol = "scp" /\ key_storage = {}
    /\ manager = Some(ActivityManagerNew)
    /\ NoRadio /\ NoLogBox

ManagerNext ==
    \/ set_filetransfer_params
    \/ run
    \/ RunBreak
    \/ RunAuthentication
    \/ RunFileTransfer
    \/ RunSetup
    \/ AuthenticationLoop
    \/ FileTransferLoop
    \/ SetupLoop

ManagerSpec == ManagerInit /\ [][ManagerNext]_vars

\* ------------------------------------------------------------ RadioGroup
\* Choices a radio group may be given; a value is one of 0..MaxChoices.
MaxChoices == 3

\* props.texts.rows: the spans of the choices, each with its content.
TextSpans(n) == [i \in 1..n |-> [content |-> i]]

\* The props a radio group reads: texts.rows (Option<Vec<TextSpan>>) and
\* value, which is PropValue::Unsigned(v), here Some(v), or another variant.
RadioProps ==
    {[rows |-> r, value |-> v] :
        r \in {None} \cup {Some(TextSpans(n)) : n \in 0..MaxChoices},
        v \in {None} \cup {Some(k) : k \in 0..MaxChoices}}

\* InputEvent: a key with its code, or an event that is not a key.
KeyCodes == {"Right", "Left", "Enter", "Up", "Down", "PageUp", "PageDown", "Char"}
KeyEvent(code) == [type |-> "Key", code |-> code]
InputEvents == {KeyEvent(c) : c \in KeyCodes} \cup {[type |-> "Resize", code |-> ""]}

\* Msg: None, OnChange(Payload::Unsigned(value)), OnSubmit(Payload::Unsigned(
\* value)), OnKey(key).
MsgNone == [kind |-> "None", value |-> 0, key |-> ""]
OnChange(value) == [kind |-> "OnChange", value |-> value, key |-> ""]
OnSubmit(value) == [kind |-> "OnSubmit", value |-> value, key |-> ""]
OnKey(key) == [kind |-> "OnKey", value |-> 0, key |-> key.code]

\* OwnStates of the radio group.
RadioStatesDefault == [choice |-> 0, choices |-> <<>>, focus |-> FALSE]

\* next_choice that moves without looking at the number of choices
NextChoiceUnchecked(states) == [states EXCEPT !.choice = states.choice + 1]

next_choice(states) ==
    IF states.choice + 1 < Len(states.choices)
    THEN [states EXCEPT !.choice = states.choice + 1]
    ELSE states

prev_choice(states) ==
    IF states.choice > 0 THEN [states EXCEPT !.choice = states.choice - 1] ELSE states

make_choices(states, spans) ==
    [states EXCEPT !.choices = [i \in 1..Len(spans) |-> spans[i].content]]

\* The two statements new and update share: make_choices of the rows (of no
\* row when there are none), then the choice taken from an unsigned value.
RadioStatesFrom(states, props) ==
    LET made == make_choices(states, IF IsSome(props.rows) THEN Unwrap(props.rows) ELSE <<>>)
    IN IF IsSome(props.value) THEN [made EXCEPT !.choice = Unwrap(props.value)] ELSE made

\* A component as a call leaves it: op is the call, ev its event, msg the
\* Msg it returned.
NoEvent == [type |-> "", code |-> ""]

RadioGroupNew(props) ==
    [props |-> props, states |-> RadioStatesFrom(RadioStatesDefault, props),
     op |-> "new", ev |-> NoEvent, msg |-> MsgNone]

Radio == Unwrap(radio)

RadioStep(r2) ==
    /\ radio' = Some(r2)
    /\ UNCHANGED <<protocol, key_storage, session, sftp, wrkdir, last, connectCalled,
                   cleared, lastSet, manager, logbox>>

RadioUpdate ==
    /\ IsSome(radio)
    /\ \E props \in RadioProps :
          RadioStep([props |-> props, states |-> RadioStatesFrom(Radio.states, props),
                     op |-> "update", ev |-> NoEvent, msg |-> MsgNone])

\* get_value: Payload::Unsigned(self.states.choice)
RadioGetValue(states) == states.choice

\* on: the states the event leaves and the Msg returned.
RadioOnResult(states, ev) ==
    IF ev.type = "Key"
    THEN IF ev.code = "Right"
         THEN [states |-> next_choice(states),
               msg |-> OnChange(RadioGetValue(next_choice(states)))]
         ELSE IF ev.code = "Left"
         THEN [states |-> prev_choice(states),
               msg |-> OnChange(RadioGetValue(prev_choice(states)))]
         ELSE IF ev.code = "Enter"
         THEN [states |-> states, msg |-> OnSubmit(RadioGetValue(states))]
         ELSE [states |-> states, msg |-> OnKey(ev)]
    ELSE [states |-> states, msg |-> MsgNone]

RadioOn ==
    /\ IsSome(radio)
    /\ \E ev \in InputEvents :
          LET r == RadioOnResult(Radio.states, ev) IN
          RadioStep([Radio EXCEPT !.states = r.states, !.op = "on", !.ev = ev,
                                  !.msg = r.msg])

RadioBlur ==
    /\ IsSome(radio)
    /\ RadioStep([Radio EXCEPT !.states.focus = FALSE, !.op = "blur", !.ev = NoEvent,
                               !.msg = MsgNone])

RadioActive ==
    /\ IsSome(radio)
    /\ RadioStep([Radio EXCEPT !.states.focus = TRUE, !.op = "active", !.ev = NoEvent,
                               !.msg = MsgNone])

\* One radio group, constructed from any props.
RadioInit ==
    /\ FileTransferNew /\ protocol = "scp" /\ key_storage = {}
    /\ NoManager /\ NoLogBox
    /\ radio \in {Some(RadioGroupNew(props)) : props \in RadioProps}

RadioNext ==
    \/ RadioUpdate
    \/ RadioOn
    \/ RadioBlur
    \/ RadioActive

RadioSpec == RadioInit /\ [][RadioNext]_vars

\* ---------------------------------------------------------------- LogBox
\* Rows a log table may have.
MaxRows == 10

\* The turns of the loops of PageUp and PageDown: for _ in 0..8
PageStep == 8

\* props.texts.table: Option<Vec<Vec<TextSpan>>>, a table of n rows.
TableRows(n) == [i \in 1..n |-> <<[content |-> i]>>]
LogProps == {[table |-> t] : t \in {None} \cup {Some(TableRows(n)) : n \in 0..MaxRows}}

\* OwnStates of the log box.
LogStatesDefault == [list_index |-> 0, list_len |-> 0, focus |-> FALSE]

set_list_len(states, len) == [states EXCEPT !.list_len = len]

\* incr_list_index that tests the index against the length itself
IncrListIndexUpToLen(states) ==
    IF states.list_index < states.list_len
    THEN [states EXCEPT !.list_index = states.list_index + 1]
    ELSE states

incr_list_index(states) ==
    IF states.list_index + 1 < states.list_len
    THEN [states EXCEPT !.list_index = states.list_index + 1]
    ELSE states

decr_list_index(states) ==
    IF states.list_index > 0
    THEN [states EXCEPT !.list_index = states.list_index - 1]
    ELSE states

reset_list_index(states) == [states EXCEPT !.list_index = 0]

\* for _ in 0..n { incr_list_index() } and the same with decr_list_index.
RECURSIVE IncrTimes(_, _)
IncrTimes(states, n) ==
    IF n = 0 THEN states ELSE IncrTimes(incr_list_index(states), n - 1)

RECURSIVE DecrTimes(_, _)
DecrTimes(states, n) ==
    IF n = 0 THEN states ELSE DecrTimes(decr_list_index(states), n - 1)

\* The statements new and update share: the length of the table (0 without
\* a table), then the index reset.
LogStatesFrom(states, props) ==
    reset_list_index(set_list_len(states,
        IF IsSome(props.table) THEN Len(Unwrap(props.table)) ELSE 0))

LogBoxNew(props) ==
    [props |-> props, states |-> LogStatesFrom(LogStatesDefault, props),
     op |-> "new", ev |-> NoEvent, msg |-> MsgNone]

Log == Unwrap(logbox)

LogStep(l2) ==
    /\ logbox' = Some(l2)
    /\ UNCHANGED <<protocol, key_storage, session, sftp, wrkdir, last, connectCalled,
                   cleared, lastSet, manager, radio>>

LogBoxUpdate ==
    /\ IsSome(logbox)
    /\ \E props \in LogProps :
          LogStep([props |-> props, states |-> LogStatesFrom(Log.states, props),
                   op |-> "update", ev |-> NoEvent, msg |-> MsgNone])

\* on: the states the event leaves and the Msg returned.
LogOnResult(states, ev) ==
    IF ev.type = "Key"
    THEN IF ev.code = "Up" THEN [states |-> incr_list_index(states), msg |-> MsgNone]
         ELSE IF ev.code = "Down" THEN [states |-> decr_list_index(states), msg |-> MsgNone]
         ELSE IF ev.code = "PageUp"
         THEN [states |-> IncrTimes(states, PageStep), msg |-> MsgNone]
         ELSE IF ev.code = "PageDown"
         THEN [states |-> DecrTimes(states, PageStep), msg |-> MsgNone]
         ELSE [states |-> states, msg |-> OnKey(ev)]
    ELSE [states |-> states, msg |-> MsgNone]

LogBoxOn ==
    /\ IsSome(logbox)
    /\ \E ev \in InputEvents :
          LET r == LogOnResult(Log.states, ev) IN
          LogStep([Log EXCEPT !.states = r.states, !.op = "on", !.ev = ev, !.msg = r.msg])

LogBoxBlur ==
    /\ IsSome(logbox)
    /\ LogStep([Log EXCEPT !.states.focus = FALSE, !.op = "blur", !.ev = NoEvent,
                           !.msg = MsgNone])

LogBoxActive ==
    /\ IsSome(logbox)
    /\ LogStep([Log EXCEPT !.states.focus = TRUE, !.op = "active", !.ev = NoEvent,
                           !.msg = MsgNone])

\* One log box, constructed from any props.
LogInit ==
    /\ FileTransferNew /\ protocol = "scp" /\ key_storage = {}
    /\ NoManager /\ NoRadio
    /\ logbox \in {Some(LogBoxNew(props)) : props \in LogProps}

LogNext ==
    \/ LogBoxUpdate
    \/ LogBoxOn
    \/ LogBoxBlur
    \/ LogBoxActive

LogSpec == LogInit /\ [][LogNext]_vars

\* ================================================================ claims
\* The operations of FileTransfer other than connect and is_connected.
OtherOps ==
    {"disconnect", "pwd", "change_dir", "list_dir", "mkdir", "remove", "rename",
     "copy", "stat", "exec", "send_file", "recv_file", "on_sent", "on_recv"}

\* The result of the last call is the error UninitializedSession.
Uninitialized == last.res = "UninitializedSession"

\* C1, as stated: on a backend on which connect was never called, every
\* operation other than connect and is_connected returns UninitializedSession,
\* whatever its arguments.
C1_AllOtherOpsUninitialized ==
    (~connectCalled /\ last.op \in OtherOps) => Uninitialized

\* C1, amended: on a backend on which connect was never called, on_sent and
\* on_recv return Ok, copy of the native-SFTP backend returns
\* UnsupportedFeature, stat of the shell-copy backend returns UnsupportedFeature
\* when its argument is a directory of the local filesystem, and every other
\* call of an operation other than connect and is_connected returns
\* UninitializedSession; none of them gives the backend a session.
C1_FreshBackend ==
    (~connectCalled /\ last.op \in OtherOps) =>
        /\ session = None /\ sftp = None
        /\ IF last.op \in {"on_sent", "on_recv"} THEN last.res = "Ok"
           ELSE IF last.op = "copy" /\ protocol = "sftp"
                THEN last.res = "UnsupportedFeature"
           ELSE IF last.op = "stat" /\ protocol = "scp" /\ Unwrap(last.trace.args).local_is_dir
                THEN last.res = "UnsupportedFeature"
           ELSE Uninitialized

\* C1: a backend never connected has answered list_dir with UninitializedSession.
C1_Witness ==
    ~connectCalled /\ last.op = "list_dir" /\ Uninitialized

\* The operations that work on the session, which a backend without one
\* refuses.
SessionOps ==
    {"pwd", "change_dir", "list_dir", "mkdir", "remove", "rename", "exec",
     "send_file", "recv_file"}

\* C2: a connect call that returns an error leaves the backend exactly as it
\* was before the call (session, sftp channel and working directory), whatever
\* stage of connect failed.
C2_FailedConnectChangesNothing ==
    [][(last'.op = "connect" /\ last'.res # "Ok") =>
           UNCHANGED <<session, sftp, wrkdir>>]_vars

\* C3: is_connected() changes only across a successful connect or a
\* successful disconnect; every other operation leaves the session handle and
\* the value of is_connected() unchanged.
C3_IsConnectedChanges ==
    [][/\ (is_connected' # is_connected) =>
              (last'.res = "Ok" /\ last'.op \in {"connect", "disconnect"})
       /\ (last'.op \notin {"connect", "disconnect"}) =>
              (session' = session /\ is_connected' = is_connected)]_vars

\* C4: from a successful disconnect until the next successful connect the
\* session and the sftp channel are absent, is_connected() is false, and
\* pwd, list_dir, exec and the other session operations fail with
\* UninitializedSession.
C4_ClearedUntilConnect ==
    cleared =>
        /\ session = None /\ sftp = None /\ ~is_connected
        /\ (last.op = "is_connected") => (last.val = <<FALSE>>)
        /\ (last.op \in SessionOps) => Uninitialized

\* C5: disconnect on a backend without a session fails with
\* UninitializedSession and changes no state; of two disconnect calls with no
\* successful connect between them, the second fails with
\* UninitializedSession when the first succeeded.
C5_DisconnectTwice ==
    [][(last'.op = "disconnect") =>
           /\ (~is_connected) =>
                  (last'.res = "UninitializedSession"
                     /\ UNCHANGED <<session, sftp, wrkdir>>)
           /\ cleared => (last'.res = "UninitializedSession")]_vars

\* C6: the working directory changes only in a successful connect and a
\* successful change_dir; pwd on a backend with a session returns exactly the
\* working directory, which is the path of the most recent successful
\* change_dir or else the path the server gave at connect time.
C6_WorkingDirectory ==
    [][/\ (wrkdir' # wrkdir) =>
              (last'.res = "Ok" /\ last'.op \in {"connect", "change_dir"})
       /\ (last'.op = "change_dir" /\ last'.res = "Ok") => (wrkdir' = last'.val)
       /\ (last'.op = "pwd" /\ is_connected) =>
              /\ last'.res = "Ok"
              /\ last'.val = wrkdir
              /\ lastSet = Some(last'.val)]_vars

\* The events of one kind in the trace of the last call, in order.
EventsOf(kind) == SelectSeq(last.trace.events, LAMBDA e : e.ev = kind)

\* The positions of the events of one kind in the trace of the last call.
PositionsOf(kind) ==
    {i \in 1..Len(last.trace.events) : last.trace.events[i].ev = kind}

\* C7: connect tries the resolved addresses strictly in resolver order, each
\* at most once, and stops at the first that accepts; it returns
\* ConnectionError "Connection timeout" exactly when the resolution succeeded
\* and every resolved address failed (the empty list included), and BadAddress
\* exactly when the resolution failed.
C7_AddressLoop ==
    (last.op = "connect") =>
        LET resolved == Unwrap(last.trace.resolved)
            reach == last.trace.reach
            tcp == EventsOf("tcp")
            firstOk == {i \in 1..Len(resolved.addrs) :
                          /\ resolved.addrs[i] \in reach
                          /\ \A j \in 1..(i - 1) : resolved.addrs[j] \notin reach}
            allFailed == \A i \in 1..Len(resolved.addrs) : resolved.addrs[i] \notin reach
        IN
        /\ Len(tcp) <= Len(resolved.addrs)
        /\ \A i \in 1..Len(tcp) :
              /\ tcp[i].addr = resolved.addrs[i]
              /\ tcp[i].ok = (resolved.addrs[i] \in reach)
              /\ tcp[i].ok => i = Len(tcp)
        /\ \A i, j \in 1..Len(tcp) : (tcp[i].addr = tcp[j].addr) => i = j
        /\ resolved.ok =>
              Len(tcp) = IF allFailed THEN Len(resolved.addrs)
                         ELSE CHOOSE i \in firstOk : TRUE
        /\ (last.res = "ConnectionError" /\ last.msg = "Connection timeout")
              <=> (resolved.ok /\ allFailed)
        /\ (last.res = "BadAddress") <=> ~resolved.ok
        /\ ~resolved.ok => tcp = <<>>

\* C7: a connect tried a first address, which failed, and then a second,
\* which accepted.
C7_Witness ==
    /\ last.op = "connect"
    /\ Len(EventsOf("tcp")) = 2
    /\ ~EventsOf("tcp")[1].ok /\ EventsOf("tcp")[2].ok

\* C8: a connect attempts at most one authentication: with the public key
\* when the resolver has a key for (address, username), with the password
\* otherwise; a refused key gives AuthenticationFailed and no password
\* attempt; an absent username is sent as "" and so is an absent password.
C8_OneAuthentication ==
    (last.op = "connect") =>
        LET a == Unwrap(last.trace.args)
            user == IF a.username = None THEN "" ELSE a.username[1]
            pass == IF a.password = None THEN "" ELSE a.password[1]
            hasKey == <<a.address, user>> \in key_storage
            auths == EventsOf("auth")
        IN
        /\ Len(auths) <= 1
        /\ \A i \in 1..Len(auths) :
              /\ auths[i].user = user
              /\ auths[i].method = IF hasKey THEN "pubkey" ELSE "password"
              /\ (auths[i].method = "password") => (auths[i].secret = Some(pass))
        /\ (last.res = "AuthenticationFailed") => Len(auths) = 1

\* C8: a key was found, the server refused it, and connect returned
\* AuthenticationFailed.
C8_Witness ==
    /\ last.op = "connect"
    /\ last.res = "AuthenticationFailed"
    /\ Len(EventsOf("auth")) = 1
    /\ EventsOf("auth")[1].method = "pubkey"

\* C9, as stated: every connect call consults the key resolver exactly once,
\* with the given host and username.
C9_EveryConnectConsultsOnce ==
    (last.op = "connect") => Len(EventsOf("resolve")) = 1

\* C9, amended: a connect call that fails before authentication (address
\* resolution, TCP, session creation, handshake) never consults the key
\* resolver; every other connect call consults it exactly once, with the
\* given host and the username (or "" when absent), before its only
\* authentication attempt.
C9_ConsultsOnceBeforeAuth ==
    (last.op = "connect") =>
        LET a == Unwrap(last.trace.args)
            user == IF a.username = None THEN "" ELSE a.username[1]
            consults == EventsOf("resolve")
        IN
        /\ Len(consults) = IF last.res \in {"BadAddress", "ConnectionError"} THEN 0 ELSE 1
        /\ \A i \in 1..Len(consults) :
              consults[i].host = a.address /\ consults[i].user = user
        /\ \A j \in PositionsOf("auth") :
              \E i \in PositionsOf("resolve") : i < j
        /\ PositionsOf("auth") # {} <=> PositionsOf("resolve") # {}

\* C9: a connect consulted the resolver and then authenticated with the
\* password.
C9_Witness ==
    /\ last.op = "connect"
    /\ Len(EventsOf("resolve")) = 1
    /\ Len(EventsOf("auth")) = 1
    /\ EventsOf("auth")[1].method = "password"

\* C10: copy of the native-SFTP backend returns UnsupportedFeature for every
\* input in every state of the backend, and changes no state.
C10_SftpCopyUnsupported ==
    [][(protocol = "sftp" /\ last'.op = "copy") =>
           /\ last'.res = "UnsupportedFeature"
           /\ UNCHANGED <<session, sftp, wrkdir>>]_vars

\* C10: the native-SFTP backend, connected, has refused a copy.
C10_Witness ==
    /\ protocol = "sftp" /\ is_connected /\ IsSome(sftp)
    /\ last.op = "copy" /\ last.res = "UnsupportedFeature"

\* The arguments of the last call, as the call recorded them.
LastArgs == Unwrap(last.trace.args)

\* C11: shell-copy change_dir on a connected backend whose command output,
\* trimmed, does not start with "0" returns NoSuchFileOrDirectory and no other
\* kind, for relative and absolute targets alike, and leaves the working
\* directory unchanged.
C11_ChangeDirRefused ==
    [][(/\ protocol = "scp" /\ last'.op = "change_dir" /\ is_connected
        /\ Unwrap(last'.trace.args).sh.step = "done"
        /\ LET out == Unwrap(last'.trace.args).sh.out
               lead == {i \in 1..Len(out) :
                          /\ ~IsWhitespace(out[i])
                          /\ \A j \in 1..(i - 1) : IsWhitespace(out[j])}
           IN \A i \in lead : out[i] # "0")
       => (last'.res = "NoSuchFileOrDirectory" /\ wrkdir' = wrkdir)]_vars

\* C11: a connected shell-copy backend refused a change_dir to an absolute
\* target whose output has whitespace before a character other than "0".
C11_Witness ==
    /\ protocol = "scp" /\ is_connected /\ last.op = "change_dir"
    /\ last.res = "NoSuchFileOrDirectory"
    /\ Head(LastArgs.dir) = "/"
    /\ LastArgs.sh.out = <<"\n", "/">>

\* C12: native-SFTP change_dir on a connected backend asks for the canonical
\* form of the path, joined to the working directory when relative; it
\* succeeds exactly when the server gives a canonical path and that path
\* passes the stat; on success the working directory becomes the canonical
\* path, which is the value returned; on failure the error is
\* NoSuchFileOrDirectory and the working directory is unchanged.
C12_SftpChangeDir ==
    [][(protocol = "sftp" /\ last'.op = "change_dir" /\ IsSome(sftp)) =>
          LET a == Unwrap(last'.trace.args)
              relative == a.dir = <<>> \/ a.dir[1] # "/"
              joined == IF wrkdir[Len(wrkdir)] = "/" THEN wrkdir \o a.dir
                        ELSE wrkdir \o <<"/">> \o a.dir
          IN
          /\ a.sent = IF relative THEN joined ELSE a.dir
          /\ (last'.res = "Ok") <=> (a.real # None /\ a.statOk)
          /\ (last'.res = "Ok") =>
                (wrkdir' = a.real[1] /\ last'.val = a.real[1])
          /\ (last'.res # "Ok") =>
                (last'.res = "NoSuchFileOrDirectory" /\ wrkdir' = wrkdir)]_vars

\* C12: from the working directory "/" the relative path "p/" was sent as
\* "/p/", the server gave "/p", and "/p" is the new working directory and
\* the value returned.
C12_Witness ==
    /\ protocol = "sftp" /\ last.op = "change_dir" /\ last.res = "Ok"
    /\ LastArgs.dir = <<"p", "/">>
    /\ LastArgs.sent = <<"/", "p", "/">>
    /\ wrkdir = <<"/", "p">> /\ last.val = <<"/", "p">>

\* The path p is q or a directory above q.
IsAbove(p, q) == Len(p) <= Len(q) /\ SubSeq(q, 1, Len(p)) = p

\* The server calls of the last remove, in order.
RemoveCalls == last.trace.events

\* C13: in a native-SFTP remove, rmdir(D) is issued only after the listing of
\* D and, for every child listed, after a call that removed that child
\* (unlink or rmdir) returned success.
C13_ChildrenBeforeRmdir ==
    (protocol = "sftp" /\ last.op = "remove") =>
        \A k \in 1..Len(RemoveCalls) :
            (RemoveCalls[k].ev = "rmdir") =>
                \E l \in 1..(k - 1) :
                    /\ RemoveCalls[l].ev = "readdir"
                    /\ RemoveCalls[l].path = RemoveCalls[k].path
                    /\ RemoveCalls[l].ok
                    /\ \A i \in 1..Len(RemoveCalls[l].children) :
                          \E r \in (l + 1)..(k - 1) :
                              /\ RemoveCalls[r].path = RemoveCalls[l].children[i]
                              /\ RemoveCalls[r].ev \in {"unlink", "rmdir"}
                              /\ RemoveCalls[r].ok

\* C13: a remove of a directory with a sub-directory and a file succeeded:
\* the file of the sub-directory, the sub-directory, the file and the
\* directory were removed, the directory last.
C13_Witness ==
    /\ protocol = "sftp" /\ last.op = "remove" /\ last.res = "Ok"
    /\ Len(RemoveCalls) = 8
    /\ RemoveCalls[8].ev = "rmdir" /\ RemoveCalls[8].path = <<"D">>
    /\ last.trace.removed = {<<"D">>, <<"D", "a">>, <<"D", "S">>, <<"D", "S", "b">>}

\* C14: when a call of a native-SFTP remove is refused (an unlink, an rmdir,
\* or the listing of a directory), that call is the last one and its error is
\* the result; no sibling listed after the failing entry is removed, no
\* directory at or above the failing path is removed, and exactly the paths
\* whose unlink or rmdir succeeded are gone from the server.
C14_StopsAtFirstFailure ==
    (protocol = "sftp" /\ last.op = "remove") =>
        LET refused == {k \in 1..Len(RemoveCalls) : ~RemoveCalls[k].ok}
            gone == {RemoveCalls[k].path : k \in {j \in 1..Len(RemoveCalls) :
                        RemoveCalls[j].ok /\ RemoveCalls[j].ev \in {"unlink", "rmdir"}}}
        IN
        /\ last.trace.removed = gone
        /\ (refused = {}) <=> (last.res \in {"Ok", "UninitializedSession"})
        /\ \A k \in refused :
              /\ k = Len(RemoveCalls)
              /\ last.res = CASE RemoveCalls[k].ev = "realpath" -> "NoSuchFileOrDirectory"
                              [] RemoveCalls[k].ev = "readdir" -> "DirStatFailed"
                              [] OTHER -> "PexError"
              /\ \A q \in last.trace.removed : ~IsAbove(q, RemoveCalls[k].path)
              /\ \A l \in 1..Len(RemoveCalls) :
                    (RemoveCalls[l].ev = "readdir" /\ RemoveCalls[l].ok) =>
                        \A i, j \in 1..Len(RemoveCalls[l].children) :
                            (i < j /\ IsAbove(RemoveCalls[l].children[i], RemoveCalls[k].path))
                                => \A q \in last.trace.removed :
                                      ~IsAbove(RemoveCalls[l].children[j], q)

\* C14: the file of the sub-directory was removed, the rmdir of the
\* sub-directory was refused; the file stays removed, and the sub-directory,
\* its sibling and the directory remain.
C14_Witness ==
    /\ protocol = "sftp" /\ last.op = "remove" /\ last.res = "PexError"
    /\ Len(RemoveCalls) = 6
    /\ RemoveCalls[6].ev = "rmdir" /\ RemoveCalls[6].path = <<"D", "S">>
    /\ ~RemoveCalls[6].ok
    /\ last.trace.removed = {<<"D", "S", "b">>}

\* The command of the last shell-copy call delivered its output.
CommandRan == LastArgs.sh.step = "done"

\* The output of the last shell-copy call is a single "0" with nothing but
\* whitespace around it.
ReportsSuccess ==
    \E i \in 1..Len(LastArgs.sh.out) :
        /\ LastArgs.sh.out[i] = "0"
        /\ \A j \in 1..Len(LastArgs.sh.out) : (j # i) => IsWhitespace(LastArgs.sh.out[j])

\* C15: a connected shell-copy mkdir, remove, rename or copy whose command
\* delivered its output returns success if and only if that output, without
\* the whitespace around it, is exactly "0".
C15_SuccessIffZero ==
    (/\ protocol = "scp" /\ last.op \in {"mkdir", "remove", "rename", "copy"}
     /\ is_connected /\ CommandRan)
        => ((last.res = "Ok") <=> ReportsSuccess)

\* C15: a mkdir whose output was "00", a status followed by more text, failed.
C15_Witness ==
    /\ protocol = "scp" /\ last.op = "mkdir" /\ is_connected
    /\ CommandRan /\ LastArgs.sh.out = <<"0", "0">>
    /\ last.res # "Ok"

C17_RefusedIsPexError ==
    /\ (/\ protocol = "scp" /\ last.op \in {"remove", "rename"} /\ is_connected
        /\ CommandRan /\ ~ReportsSuccess)
          => last.res = "PexError"
    /\ (/\ protocol = "sftp" /\ last.op = "remove" /\ IsSome(sftp)
        /\ \E k \in 1..Len(RemoveCalls) :
              RemoveCalls[k].ev \in {"unlink", "rmdir"} /\ ~RemoveCalls[k].ok)
          => last.res = "PexError"
    /\ (protocol = "sftp" /\ last.op = "rename" /\ IsSome(sftp) /\ ~LastArgs.ok)
          => last.res = "PexError"

\* C17, amended: a connected remove that the server refuses (the shell
\* command does not report success; an unlink or rmdir of the native-SFTP
\* backend is refused) fails with PexError on both backends; a refused rename
\* fails with PexError on the shell-copy backend and with FileCreateDenied on
\* the native-SFTP backend.
C17_RefusalKinds ==
    /\ (/\ protocol = "scp" /\ last.op \in {"remove", "rename"} /\ is_connected
        /\ CommandRan /\ ~ReportsSuccess)
          => last.res = "PexError"
    /\ (/\ protocol = "sftp" /\ last.op = "remove" /\ IsSome(sftp)
        /\ \E k \in 1..Len(RemoveCalls) :
              RemoveCalls[k].ev \in {"unlink", "rmdir"} /\ ~RemoveCalls[k].ok)
          => last.res = "PexError"
    /\ (protocol = "sftp" /\ last.op = "rename" /\ IsSome(sftp) /\ ~LastArgs.ok)
          => last.res = "FileCreateDenied"

\* C17: the native-SFTP server refused a rename and the call failed with
\* FileCreateDenied.
C17_Witness ==
    /\ protocol = "sftp" /\ last.op = "rename" /\ IsSome(sftp)
    /\ ~LastArgs.ok /\ last.res = "FileCreateDenied"

\* ---- list_dir
ScpObtained ==
    /\ protocol = "scp"
    /\ last.op = "list_dir"
    /\ is_connected
    /\ LastArgs.ls.step = "done"

ScpLines == LastArgs.ls.out

SftpObtained ==
    /\ protocol = "sftp"
    /\ last.op = "list_dir"
    /\ IsSome(sftp)
    /\ LastArgs.remote.kind = "Ok"
    /\ IsSome(LastArgs.read)

SftpRead == Unwrap(LastArgs.read)

\* The entries stand in the order of the lines (pairs) they were made of.
InListingOrder(entries) ==
    \A a, b \in 1..Len(entries) : a < b => entries[a].kind < entries[b].kind

EntrySources(entries) == {entries[k].kind : k \in 1..Len(entries)}

\* The line matches the listing grammar of the specification.
GrammarLine(l) ==
    /\ l.flag \in {"-", "l", "d"}
    /\ l.pex \in [1..9 -> {"-", "r", "w", "x", "s"}]
    /\ l.rest
    /\ Len(l.token) > 0

\* The line is named "." or "..": its token is the name, or for a link the
\* name followed by the arrow.
DotLine(l) ==
    \E d \in {<<".">>, <<".", ".">>} :
        \/ l.token = d
        \/ /\ l.flag = "l"
           /\ Len(l.token) >= Len(d) + 4
           /\ SubSeq(l.token, 1, Len(d) + 4) = d \o Arrow

HasTarget(l) == \E i \in 1..Len(l.token) : ArrowAt(l.token, i)

C18_WitnessScp ==
    /\ ScpObtained /\ last.res = "Ok"
    /\ Len(ScpLines) = MaxLines
    /\ \A i \in 1..Len(ScpLines) : ScpLines[i].child
    /\ Len(last.val) = 1

C18_WitnessSftp ==
    /\ SftpObtained /\ last.res = "Ok"
    /\ Len(last.val) = MaxLines
    /\ \E k \in 1..Len(SftpRead) :
          SftpRead[k].is_symlink /\ ~IsSome(SftpRead[k].readlink)

C20_SuccessForEveryOutput ==
    ScpObtained =>
        /\ last.res = "Ok"
        /\ Len(last.val) <= Len(ScpLines)
        /\ Len(last.val) = Cardinality(EntrySources(last.val))
        /\ InListingOrder(last.val)
        /\ \A k \in 1..Len(last.val) : GrammarLine(ScpLines[last.val[k].kind])

\* ---- permission decoding
\* The digit of the three characters of s from position k on.
PexDigit(s, k) ==
    4 * (IF s[k] # "-" THEN 1 ELSE 0) + 2 * (IF s[k + 1] # "-" THEN 1 ELSE 0)
        + (IF s[k + 2] # "-" THEN 1 ELSE 0)

\* C21: the permission triple of an entry is, group by group of its line's
\* nine permission characters, 4 for a first, 2 for a second and 1 for a third
\* character other than "-", whatever the letter; every digit is in 0..7;
\* "rwxr-xr--" gives (7,5,4) and "---------" gives (0,0,0).
C21_PexDecoding ==
    (ScpObtained /\ last.res = "Ok") =>
        \A k \in 1..Len(last.val) :
            LET s == ScpLines[last.val[k].kind].pex
                t == last.val[k].unix_pex
            IN /\ t = <<PexDigit(s, 1), PexDigit(s, 4), PexDigit(s, 7)>>
               /\ \A i \in 1..3 : t[i] \in 0..7
               /\ s = <<"r", "w", "x", "r", "-", "x", "r", "-", "-">> => t = <<7, 5, 4>>
               /\ s = <<"-", "-", "-", "-", "-", "-", "-", "-", "-">> => t = <<0, 0, 0>>

\* An entry of a line whose owner group is "s-x": letters other than r w x
\* at work.
C21_Witness ==
    /\ ScpObtained /\ last.res = "Ok" /\ Len(last.val) = 1
    /\ SubSeq(ScpLines[1].pex, 1, 3) = <<"s", "-", "x">>
    /\ last.val[1].unix_pex[1] = 5

\* The tokens of the line other than the permissions are well-formed.
WellFormedButPex(l) == l.flag \in {"-", "l", "d"} /\ l.rest /\ Len(l.token) > 0

Sent == Unwrap(LastArgs.sent)

\* C23: the mode send_file computes from a permission triple with digits in
\* 0..7 is in 0..0o777 and decodes, as (m>>6)&7, (m>>3)&7, m&7, to the same
\* triple; and the triple the native-SFTP entry conversion makes of
\* permission bits encodes back to those bits.
C23_ModeRoundTrip ==
    /\ (last.op = "send_file" /\ IsSome(LastArgs.sent) /\ IsSome(LastArgs.local.unix_pex)) =>
          LET t == Unwrap(LastArgs.local.unix_pex)
              m == Sent.mode
          IN /\ m \in 0..511
             /\ <<(m \div 64) % 8, (m \div 8) % 8, m % 8>> = t
    /\ (SftpObtained /\ last.res = "Ok") =>
          \A k \in 1..Len(last.val) :
              IsSome(SftpRead[k].perm) =>
                  LET t == Unwrap(last.val[k].unix_pex) IN
                  /\ \A i \in 1..3 : t[i] \in 0..7
                  /\ t[1] * 64 + t[2] * 8 + t[3] = Unwrap(SftpRead[k].perm) % 512

\* A file with the triple (7,5,4) was sent with mode 0o754.
C23_Witness ==
    /\ last.op = "send_file" /\ last.res = "Ok"
    /\ LastArgs.local.unix_pex = Some(<<7, 5, 4>>)
    /\ Sent.mode = 492

\* C24 as stated: the declared size is the length of the local file on disk,
\* never the cached size of the descriptor when the two differ.
C24_DeclaresDiskLength ==
    (protocol = "scp" /\ last.op = "send_file" /\ IsSome(LastArgs.sent)
        /\ IsSome(LastArgs.disk.len)) =>
        Sent.size = Unwrap(LastArgs.disk.len)

\* C24 (amended): the declared size is the length the metadata of the local
\* file reports when the metadata can be read, whatever the cached size; it is
\* the cached size of the descriptor when the metadata cannot be read.
C24_DiskLengthOrFallback ==
    (protocol = "scp" /\ last.op = "send_file" /\ IsSome(LastArgs.sent)) =>
        IF LastArgs.disk.metadata
        THEN Sent.size = Unwrap(LastArgs.disk.len)
        ELSE Sent.size = LastArgs.local.size

\* A file whose cached size is 0 and whose length on disk is MaxSize was sent.
C24_Witness ==
    /\ protocol = "scp" /\ last.op = "send_file" /\ last.res = "Ok"
    /\ LastArgs.disk.metadata
    /\ LastArgs.local.size = 0
    /\ Sent.size = MaxSize

\* ---- stat
ScpStatCalled == protocol = "scp" /\ last.op = "stat" /\ is_connected

StatPath == IF is_absolute(LastArgs.path) THEN LastArgs.path ELSE push(wrkdir, LastArgs.path)

\* C25: shell-copy stat of a path that is a directory on the remote host is
\* rejected with UnsupportedFeature before any listing command is sent, and
\* stat of a remote non-directory is not rejected with that kind.
C25_RemoteDirectoryRejected ==
    (ScpStatCalled /\ has_parent(StatPath)) =>
        /\ LastArgs.remote_is_dir => (last.res = "UnsupportedFeature" /\ ~LastArgs.sent)
        /\ ~LastArgs.remote_is_dir => last.res # "UnsupportedFeature"

\* C26: every entry list_dir or stat returns, on either backend, has a name
\* equal to the final component of its abs_path; stat of a relative file name
\* returns a File whose abs_path is the working directory joined with it.
C26_NameIsFinalComponent ==
    /\ (last.op = "list_dir" /\ last.res = "Ok") =>
          \A k \in 1..Len(last.val) :
              file_name(last.val[k].abs_path) = Some(last.val[k].name)
    /\ (last.op = "stat" /\ last.res = "Ok") =>
          file_name(last.val.abs_path) = Some(last.val.name)
    /\ (ScpStatCalled /\ last.res = "Ok" /\ ~is_absolute(LastArgs.path)
            /\ LastArgs.ls.out[1].flag = "-") =>
          /\ last.val.variant = "File"
          /\ last.val.abs_path = push(wrkdir, LastArgs.path)

\* C27: exec on a connected backend hands the transport the caller's command
\* as it is, after cd to the working directory of the time of the call, and
\* returns the captured output unmodified; a failure of the channel is a
\* ProtocolError; exec on a backend that is not connected, as after a
\* disconnect, fails with UninitializedSession and runs nothing.
C27_Exec ==
    [][last'.op = "exec" =>
        LET a == Unwrap(last'.trace.args) IN
        /\ is_connected =>
              /\ a.shell_cmd = Some([cd |-> wrkdir, then |-> a.cmd])
              /\ a.sh.step = "done" => (last'.res = "Ok" /\ last'.val = a.sh.out)
              /\ a.sh.step # "done" => last'.res = "ProtocolError"
        /\ ~is_connected => (last'.res = "UninitializedSession" /\ a.shell_cmd = None)
        /\ (last.op = "disconnect" /\ last.res = "Ok") => last'.res = "UninitializedSession"
        /\ wrkdir' = wrkdir]_vars

\* An exec in a working directory other than the initial one returned an
\* output that ends in a newline.
C27_Witness ==
    /\ last.op = "exec" /\ last.res = "Ok"
    /\ last.val = <<"0", "\n">>
    /\ LastArgs.shell_cmd = Some([cd |-> <<"/">>, then |-> "echo 5"])

\* C28: shell-copy change_dir on a connected backend sends, after cd to the
\* working directory, cd "<target>"; echo $?; pwd, where the target is the
\* argument when it is absolute and "./" followed by it when it is relative;
\* when the trimmed output starts with "0" the rest of it, trimmed, becomes
\* the working directory and is the value returned.
C28_ChangeDirCommand ==
    [][(protocol = "scp" /\ last'.op = "change_dir" /\ is_connected) =>
        LET a == Unwrap(last'.trace.args)
            target == IF Head(a.dir) = "/" THEN a.dir ELSE <<".", "/">> \o a.dir
            output == Trim(a.sh.out)
        IN /\ a.shell_cmd = Some([cd |-> wrkdir,
                                  then |-> <<"cd", target, "echo $?", "pwd">>])
           /\ (a.sh.step = "done" /\ output # <<>> /\ Head(output) = "0") =>
                 /\ last'.res = "Ok"
                 /\ wrkdir' = Trim(Tail(output))
                 /\ last'.val = wrkdir']_vars

\* A change_dir to a relative directory moved the working directory.
C28_Witness ==
    /\ protocol = "scp" /\ last.op = "change_dir" /\ last.res = "Ok"
    /\ LastArgs.dir = <<"p">>
    /\ Unwrap(LastArgs.shell_cmd).then[2] = <<".", "/", "p">>
    /\ Unwrap(LastArgs.shell_cmd).cd # wrkdir

\* ---- links
\* The final component of the target of a link line equals the link's name.
TargetNamedAsLink(l) ==
    \E i \in 1..Len(l.token) :
        /\ ArrowAt(l.token, i)
        /\ \A j \in 1..(i - 1) : ~ArrowAt(l.token, j)
        /\ \E from \in (i + 4)..(Len(l.token) + 1) :
              /\ SubSeq(l.token, from, Len(l.token)) = SubSeq(l.token, 1, i - 1)
              /\ (from = i + 4 \/ l.token[from - 1] = "/")

\* C29: in the result of a shell-copy list_dir the symlink field of an entry
\* is populated only for a line with flag l whose target is not named as the
\* link; at most one stat command is sent for a line, none for a line that
\* is not a link; and a target stat that fails leaves the field empty without
\* failing the listing.
C29_OneStatPerLink ==
    ScpObtained =>
        /\ last.res = "Ok"
        /\ \A k \in 1..Len(last.val) :
              LET e == last.val[k]
                  l == ScpLines[e.kind]
              IN /\ e.symlink => (l.flag = "l" /\ e.stats = 1 /\ ~TargetNamedAsLink(l))
                 /\ e.stats <= 1
                 /\ l.flag # "l" => e.stats = 0
                 /\ TargetNamedAsLink(l) => e.stats = 0

\* C30: native-SFTP list_dir returns exactly one entry per pair of the
\* directory read; for a pair that is a link at most one readlink and one
\* stat are made, and a failure of either leaves symlink empty without failing
\* list_dir or dropping the entry.
C30_BestEffortLinks ==
    SftpObtained =>
        /\ last.res = "Ok"
        /\ Len(last.val) = Len(SftpRead)
        /\ \A k \in 1..Len(last.val) :
              LET e == last.val[k]
                  pair == SftpRead[k]
              IN /\ e.kind = k
                 /\ e.readlinks <= 1 /\ e.stats <= 1
                 /\ ~pair.is_symlink => (e.readlinks = 0 /\ e.stats = 0 /\ ~e.symlink)
                 /\ (pair.is_symlink /\ (~IsSome(pair.readlink) \/ ~IsSome(pair.real)
                        \/ ~pair.statOk)) => ~e.symlink

\* ---- termination
\* C31: shell-copy stat and list_dir return for every answer of the server:
\* a call that obtained the output of its listing command ends with a result
\* or a typed error, and the stat commands sent for one line are at most two,
\* also for a line whose link leads to a link that leads back to it.
C31_LinkResolutionTerminates ==
    /\ ScpObtained =>
          /\ last.res # "Abort"
          /\ last.res = "Ok" => \A k \in 1..Len(last.val) : last.val[k].stats <= 2
    /\ (ScpStatCalled /\ LastArgs.sent /\ LastArgs.ls.step = "done") =>
          /\ last.res # "Abort"
          /\ last.res = "Ok" => last.val.stats <= 2

\* ---- handles of the native-SFTP backend
\* The calls of the native-SFTP backend that test a handle before they act.
SftpGuardedOps ==
    {"pwd", "change_dir", "list_dir", "mkdir", "remove", "rename", "stat", "exec",
     "send_file", "recv_file"}

\* C32: in the native-SFTP backend the session and the sftp channel are
\* present together or absent together after every call, successful or not;
\* is_connected answers whether the channel is present, and a call that tests
\* a handle fails with UninitializedSession exactly when the backend is not
\* connected.
C32_HandlesTogether ==
    protocol = "sftp" =>
        /\ IsSome(session) <=> IsSome(sftp)
        /\ last.op = "is_connected" => last.val = <<IsSome(sftp)>>
        /\ last.op \in SftpGuardedOps =>
              (last.res = "UninitializedSession" <=> ~is_connected)

\* After a connect and a disconnect that succeeded, pwd found no channel on
\* a backend that holds no session.
C32_Witness ==
    /\ protocol = "sftp" /\ cleared
    /\ session = None /\ sftp = None
    /\ last.op = "pwd" /\ last.res = "UninitializedSession"

\* C33: when the transport refuses the disconnect of a backend that holds a
\* session, disconnect returns ConnectionError and leaves the session, the
\* sftp channel and the working directory as they were, so is_connected stays
\* true; a disconnect called next reaches the transport again instead of
\* failing with UninitializedSession.
C33_FailedDisconnectKeepsSession ==
    [][last'.op = "disconnect" =>
        /\ (is_connected /\ ~Unwrap(last'.trace.args).ok) =>
              /\ last'.res = "ConnectionError"
              /\ UNCHANGED <<session, sftp, wrkdir>>
              /\ is_connected'
        /\ (last.op = "disconnect" /\ last.res = "ConnectionError") =>
              /\ last'.res # "UninitializedSession"
              /\ IsSome(last'.trace.args)]_vars

\* A disconnect refused by the transport left a session in place.
C33_Witness ==
    /\ last.op = "disconnect" /\ last.res = "ConnectionError"
    /\ ~LastArgs.ok
    /\ is_connected /\ connectCalled

\* C34: native-SFTP stat ends, for every path the server canonicalizes and
\* stats, the root directory included, with an entry or with one of its typed
\* errors; no call of it aborts.
C34_StatReturns ==
    (protocol = "sftp" /\ last.op = "stat") =>
        /\ last.res \in {"Ok", "NoSuchFileOrDirectory", "UninitializedSession"}
        /\ last.res = "Ok" => last.val.abs_path \in CanonPaths

\* C35: after a successful native-SFTP change_dir the working directory is
\* the canonical path of a directory of the server: a change_dir to a path
\* that the server stats as a regular file does not succeed and does not
\* become the working directory.
C35_WorkingDirectoryIsDirectory ==
    (protocol = "sftp" /\ last.op = "change_dir" /\ IsSome(sftp)) =>
        /\ last.res = "Ok" => (LastArgs.is_dir /\ wrkdir = Unwrap(LastArgs.real))
        /\ (LastArgs.real # None /\ LastArgs.statOk /\ ~LastArgs.is_dir) =>
              last.res # "Ok"

\* ---- the activities
\* What a turn of the loop of an activity made of the answer of will_umount,
\* seen across the step: the manager went to the match of run with this
\* next activity, or stayed in the loop.
LeftLoopFor(next) ==
    /\ Unwrap(manager').pc = "match"
    /\ Unwrap(manager').current_activity = next

StayedInLoop ==
    /\ Unwrap(manager').pc = "loop"
    /\ Unwrap(manager').activity = Mgr.activity
    /\ Unwrap(manager').held = Mgr.held

\* The transitions of the claim, on a turn of a loop that saw the reason r.
ActivityTransitions ==
    Mgr.pc = "loop" =>
        LET a == Unwrap(Mgr.activity)
            r == Unwrap(manager').will_umount
        IN /\ a = "Authentication" =>
                 IF r = Some("Quit") THEN LeftLoopFor(None)
                 ELSE IF r = Some("EnterSetup") THEN LeftLoopFor(Some("SetupActivity"))
                 ELSE IF r = Some("Connect") THEN LeftLoopFor(Some("FileTransfer"))
                 ELSE StayedInLoop
           /\ a = "FileTransfer" =>
                 IF r = Some("Quit") THEN LeftLoopFor(None)
                 ELSE IF r = Some("Disconnect") THEN LeftLoopFor(Some("Authentication"))
                 ELSE StayedInLoop
           /\ a = "SetupActivity" =>
                 IF r = Some("Quit") THEN LeftLoopFor(Some("Authentication"))
                 ELSE StayedInLoop

\* The activity created at the match is the one the previous one named.
EntersWhatWasNamed ==
    (Mgr.pc = "match" /\ Unwrap(manager').pc = "loop") =>
        Unwrap(manager').activity = Mgr.current_activity

RunReturns == Mgr.pc = "match" /\ Unwrap(manager').pc = "idle"

AfterQuit ==
    /\ Mgr.will_umount = Some("Quit")
    /\ Mgr.activity \in {Some("Authentication"), Some("FileTransfer")}

\* C36 as stated: run moves between the activities only along the
\* transitions listed; it returns only after a Quit from Authentication or
\* FileTransfer, or when FileTransfer was entered without transfer parameters
\* or without a context; and when it returns the manager holds no context.
C36_RunAsStated ==
    [][manager' # manager =>
        /\ ActivityTransitions
        /\ EntersWhatWasNamed
        /\ RunReturns =>
              /\ Unwrap(manager').context = None
              /\ \/ AfterQuit
                 \/ /\ Mgr.activity = Some("FileTransfer")
                    /\ ~Mgr.had_context \/ ~Mgr.had_params]_vars

\* C36: run moves between the activities only along the transitions listed;
\* it returns only after a Quit from Authentication or FileTransfer, or when
\* an activity was entered without a context, or FileTransfer without
\* transfer parameters; and when it returns the manager holds no context.
C36_Run ==
    [][manager' # manager =>
        /\ ActivityTransitions
        /\ EntersWhatWasNamed
        /\ RunReturns =>
              /\ Unwrap(manager').context = None
              /\ \/ AfterQuit
                 \/ ~Mgr.had_context
                 \/ Mgr.activity = Some("FileTransfer") /\ ~Mgr.had_params]_vars

\* run has returned after a Quit from the third activity it entered, a
\* FileTransfer.
C36_Witness ==
    /\ IsSome(manager)
    /\ Mgr.returned /\ Mgr.pc = "idle"
    /\ Mgr.entered = 3
    /\ Mgr.activity = Some("FileTransfer")
    /\ Mgr.will_umount = Some("Quit")
    /\ Mgr.context = None

\* ---- the radio group
\* The step is a call of on that the component can be seen to have made.
RadioOnStep == IsSome(radio) /\ radio' # radio /\ Unwrap(radio').op = "on"

\* Enter, another key, and an event that is not a key, as claimed.
RadioOtherEvents ==
    LET before == Radio.states
        after == Unwrap(radio').states
        ev == Unwrap(radio').ev
        msg == Unwrap(radio').msg
    IN /\ (ev.type = "Key" /\ ev.code = "Left") =>
             /\ after.choice = IF before.choice = 0 THEN 0 ELSE before.choice - 1
             /\ msg = [kind |-> "OnChange", value |-> after.choice, key |-> ""]
       /\ (ev.type = "Key" /\ ev.code = "Enter") =>
             /\ after.choice = before.choice
             /\ msg = [kind |-> "OnSubmit", value |-> before.choice, key |-> ""]
       /\ (ev.type = "Key" /\ ev.code \notin {"Right", "Left", "Enter"}) =>
             /\ after.choice = before.choice
             /\ msg = [kind |-> "OnKey", value |-> 0, key |-> ev.code]
       /\ ev.type # "Key" => msg = [kind |-> "None", value |-> 0, key |-> ""]
       /\ after.choices = before.choices

\* C37 as stated: Right moves the selected index up by one unless it is
\* the index of the last choice, Left moves it down by one unless it is 0,
\* both return OnChange with the index after the move; Enter returns OnSubmit
\* with the current index and another key OnKey(key), the index unchanged; an
\* event that is not a key returns Msg::None.
C37_RightUnlessLast ==
    [][RadioOnStep =>
        /\ RadioOtherEvents
        /\ (Unwrap(radio').ev = [type |-> "Key", code |-> "Right"]) =>
              /\ Unwrap(radio').states.choice =
                    IF Radio.states.choice = Len(Radio.states.choices) - 1
                    THEN Radio.states.choice ELSE Radio.states.choice + 1
              /\ Unwrap(radio').msg = [kind |-> "OnChange",
                                       value |-> Unwrap(radio').states.choice,
                                       key |-> ""]]_vars

\* C37: Right moves the selected index up by one when a choice follows it
\* (index + 1 is smaller than the number of choices) and leaves it otherwise:
\* on the last choice, on an empty list, on an index past the end; Left moves
\* it down by one unless it is 0; both return OnChange with the index after
\* the move; Enter returns OnSubmit with the current index and another key
\* OnKey(key), the index unchanged; an event that is not a key returns
\* Msg::None.
C37_KeyHandling ==
    [][RadioOnStep =>
        /\ RadioOtherEvents
        /\ (Unwrap(radio').ev = [type |-> "Key", code |-> "Right"]) =>
              /\ Unwrap(radio').states.choice =
                    IF Radio.states.choice + 1 < Len(Radio.states.choices)
                    THEN Radio.states.choice + 1 ELSE Radio.states.choice
              /\ Unwrap(radio').msg = [kind |-> "OnChange",
                                       value |-> Unwrap(radio').states.choice,
                                       key |-> ""]]_vars

\* Right was pressed and the group of three choices reports the last one.
C37_Witness ==
    /\ IsSome(radio)
    /\ Radio.op = "on" /\ Radio.ev = [type |-> "Key", code |-> "Right"]
    /\ Len(Radio.states.choices) = 3
    /\ Radio.msg = [kind |-> "OnChange", value |-> 2, key |-> ""]

\* C38: whenever the list of choices is not empty the selected index is
\* smaller than the number of choices, after new, update and every event.
C38_ChoiceInRange ==
    (IsSome(radio) /\ Radio.states.choices # <<>>) =>
        Radio.states.choice < Len(Radio.states.choices)

\* ---- the log box
LogOnStep == IsSome(logbox) /\ logbox' # logbox /\ Unwrap(logbox').op = "on"

\* The position i brought back within the rows of a list of length len.
Clamped(i, len) == IF len = 0 THEN 0 ELSE IF i < 0 THEN 0 ELSE IF i > len - 1 THEN len - 1 ELSE i

\* C39: Up raises the list index by one and Down lowers it by one, PageUp
\* and PageDown by eight, the index kept within 0..len-1 (0 for an empty
\* list); these four keys return Msg::None; another key returns OnKey(key)
\* and leaves the index; update sets the length to the number of rows of the
\* new table and the index to 0.
C39_LogBoxKeys ==
    [][IsSome(logbox) =>
        LET before == Log.states
            after == Unwrap(logbox').states
            ev == Unwrap(logbox').ev
            msg == Unwrap(logbox').msg
            moved == IF ev.code = "Up" THEN 1 ELSE IF ev.code = "Down" THEN 0 - 1
                     ELSE IF ev.code = "PageUp" THEN 8 ELSE 0 - 8
        IN /\ (LogOnStep /\ ev.type = "Key") =>
                 /\ after.list_len = before.list_len
                 /\ IF ev.code \in {"Up", "Down", "PageUp", "PageDown"}
                    THEN /\ after.list_index = Clamped(before.list_index + moved,
                                                       before.list_len)
                         /\ msg = [kind |-> "None", value |-> 0, key |-> ""]
                    ELSE /\ after.list_index = before.list_index
                         /\ msg = [kind |-> "OnKey", value |-> 0, key |-> ev.code]
           /\ (logbox' # logbox /\ Unwrap(logbox').op = "update") =>
                 /\ after.list_len =
                       IF IsSome(Unwrap(logbox').props.table)
                       THEN Len(Unwrap(Unwrap(logbox').props.table)) ELSE 0
                 /\ after.list_index = 0
           /\ \/ after.list_index \in 0..(after.list_len - 1)
              \/ after.list_len = 0 /\ after.list_index = 0]_vars

\* PageUp moved the index of a list of ten rows by eight, short of the end.
C39_Witness ==
    /\ IsSome(logbox)
    /\ Log.op = "on" /\ Log.ev = [type |-> "Key", code |-> "PageUp"]
    /\ Log.states.list_len = 10
    /\ Log.states.list_index = 8

====
